---- MODULE Spec2Model ----
(***************************************************************************)
(* Dialogue-state refinement engine of the Genie dialogue templates:       *)
(* the predicate algebra (filter compatibility, slot extraction,           *)
(* identity neutralization, the three refinement strategies) and the       *)
(* query refinement built on it.                                           *)
(***************************************************************************)
EXTENDS Integers, Sequences, FiniteSets, TLC

VARIABLES
    pc,             \* the function that was called, "start" before the call
    ctxFilter,      \* the filter of the context
    refinedFilter,  \* the filter of the fragment
    ctxTable,       \* the query of the context (ctx.current.stmt.table)
    newProjection,  \* the explicit projection passed to queryRefinement, or Null
    strategy,       \* the refinement strategy passed to queryRefinement
    question,       \* the question of emptySearchChangePair, or NullName
    ret,            \* the value the call returned
    raised,         \* the error the call raised, "none" if it returned
    heap,           \* the table objects allocated so far, by address
    stmt,           \* the address of the statement of the context
    calls,          \* the number of calls made on the context so far
    ctxInfo,        \* the context info a rule or check reads
    fragment        \* the argument a rule or check was called with

vars == <<pc, ctxFilter, refinedFilter, ctxTable, newProjection, strategy, question, ret, raised,
          heap, stmt, calls, ctxInfo, fragment>>

\* the variables the refinement strategies and queryRefinement leave alone
dialogueVars == <<heap, stmt, calls, ctxInfo, fragment>>

(***************************************************************************)
(* Bounds of the model.                                                    *)
(***************************************************************************)
MaxValue == 2

Values == 1..MaxValue

Fields == {"id", "food", "price"}

Operators == {"==", ">="}

(***************************************************************************)
(* Filter expressions (Ast.BooleanExpression): one record per node, the    *)
(* variant in the field kind.  External and Compute are opaque leaves: no  *)
(* visitor of this module looks inside them.                               *)
(***************************************************************************)
TrueExpr == [kind |-> "True"]

FalseExpr == [kind |-> "False"]

ExternalExpr == [kind |-> "External"]

ComputeExpr == [kind |-> "Compute"]

DontCare(n) == [kind |-> "DontCare", name |-> n]

Atom(n, o, v) == [kind |-> "Atom", name |-> n, operator |-> o, value |-> v]

Not(e) == [kind |-> "Not", expr |-> e]

And(ops) == [kind |-> "And", operands |-> ops]

Or(ops) == [kind |-> "Or", operands |-> ops]

\* the rejection value of every function of the engine
Null == [kind |-> "null"]

(***************************************************************************)
(* The filters the inputs are drawn from.                                  *)
(***************************************************************************)
Atoms == {Atom(n, o, v) : n \in Fields, o \in Operators, v \in Values}

DontCares == {DontCare(n) : n \in Fields}

Leaves == Atoms \cup DontCares \cup {TrueExpr, FalseExpr, ExternalExpr, ComputeExpr}

Negations == {Not(e) : e \in {Atom(n, "==", 1) : n \in Fields} \cup DontCares}

Disjunctions ==
    {Or(<<Atom(n, "==", 1), e>>) : n \in {"id", "food"}, e \in {Atom("price", "==", 1), ExternalExpr}}

NegatedConjunctions == {Not(And(<<Atom("food", "==", 1), Atom("price", "==", 1)>>))}

Clauses == Leaves \cup Negations \cup Disjunctions \cup NegatedConjunctions

SecondClauses ==
    {Atom("price", "==", 1), Atom("price", ">=", 1), DontCare("price"),
     Not(Atom("food", "==", 1)), ExternalExpr, Or(<<Atom("id", "==", 1), Atom("price", "==", 1)>>)}

Conjunctions == {And(<<x, y>>) : x \in Clauses \ {TrueExpr, FalseExpr}, y \in SecondClauses}

ThirdClauses == {Atom("id", "==", 1), DontCare("id"), ExternalExpr}

LongConjunctions ==
    {And(<<Atom("food", o, v), y, z>>) : o \in Operators, v \in Values, y \in SecondClauses, z \in ThirdClauses}

Filters == Clauses \cup Conjunctions \cup LongConjunctions

\* result rows: a row carries a value for some of the fields
Rows == UNION {[D -> Values] : D \in SUBSET Fields}

(***************************************************************************)
(* Expression-tree primitives: simplification of a filter.                 *)
(***************************************************************************)
RECURSIVE flattenAnd(_), flattenAndAll(_), flattenOr(_), flattenOrAll(_)

flattenAnd(e) == IF e.kind = "And" THEN flattenAndAll(e.operands) ELSE <<e>>

flattenAndAll(ops) == IF ops = <<>> THEN <<>> ELSE flattenAnd(Head(ops)) \o flattenAndAll(Tail(ops))

flattenOr(e) == IF e.kind = "Or" THEN flattenOrAll(e.operands) ELSE <<e>>

flattenOrAll(ops) == IF ops = <<>> THEN <<>> ELSE flattenOr(Head(ops)) \o flattenOrAll(Tail(ops))

\* the sub-expressions that are simplified before the node itself is; under
\* a double negation that is the doubly negated expression
optimizeOperands(e) ==
    CASE e.kind = "And" -> flattenAnd(e)
      [] e.kind = "Or" -> flattenOr(e)
      [] e.kind = "Not" -> IF e.expr.kind = "Not" THEN <<e.expr.expr>> ELSE <<e.expr>>
      [] OTHER -> <<>>

\* And: True operands are dropped, a False operand makes the whole False
optimizeAnd(ops) ==
    IF \E i \in 1..Len(ops) : ops[i].kind = "False" THEN FalseExpr
    ELSE IF Len(ops) = 0 THEN TrueExpr
    ELSE IF Len(ops) = 1 THEN ops[1]
    ELSE And(ops)

\* Or: False operands are dropped, a True operand makes the whole True
optimizeOr(ops) ==
    IF \E i \in 1..Len(ops) : ops[i].kind = "True" THEN TrueExpr
    ELSE IF Len(ops) = 0 THEN FalseExpr
    ELSE IF Len(ops) = 1 THEN ops[1]
    ELSE Or(ops)

\* the node e rebuilt from its simplified operands
optimizeNode(e, operands) ==
    CASE e.kind = "And" -> optimizeAnd(SelectSeq(operands, LAMBDA o : o.kind # "True"))
      [] e.kind = "Or" -> optimizeOr(SelectSeq(operands, LAMBDA o : o.kind # "False"))
      [] e.kind = "Not" ->
            IF e.expr.kind = "Not" THEN operands[1]
            ELSE IF operands[1].kind = "True" THEN FalseExpr
            ELSE IF operands[1].kind = "False" THEN TrueExpr
            ELSE Not(operands[1])
      [] OTHER -> e

RECURSIVE optimize(_), optimizeAll(_)

optimize(e) == optimizeNode(e, optimizeAll(optimizeOperands(e)))

optimizeAll(operands) == [i \in 1..Len(operands) |-> optimize(operands[i])]

\* C.filterUsesParam: is pname named by an Atom or DontCare outside External
RECURSIVE filterUsesParam(_, _)

filterUsesParam(filter, pname) ==
    CASE filter.kind \in {"Atom", "DontCare"} -> filter.name = pname
      [] filter.kind = "Not" -> filterUsesParam(filter.expr, pname)
      [] filter.kind \in {"And", "Or"} ->
            \E i \in 1..Len(filter.operands) : filterUsesParam(filter.operands[i], pname)
      [] OTHER -> FALSE

(***************************************************************************)
(* Predicate algebra.                                                      *)
(***************************************************************************)
\* mutant: the operator is looked at before the value of the row
RECURSIVE isFilterCompatibleWithResultOperatorFirst(_, _)

isFilterCompatibleWithResultOperatorFirst(topResult, filter) ==
    CASE filter.kind \in {"True", "DontCare"} -> TRUE
      [] filter.kind = "False" -> FALSE
      [] filter.kind = "And" ->
            \A i \in 1..Len(filter.operands) :
                isFilterCompatibleWithResultOperatorFirst(topResult, filter.operands[i])
      [] filter.kind = "Or" ->
            \E i \in 1..Len(filter.operands) :
                isFilterCompatibleWithResultOperatorFirst(topResult, filter.operands[i])
      [] filter.kind = "Not" -> ~isFilterCompatibleWithResultOperatorFirst(topResult, filter.expr)
      [] filter.kind \in {"External", "Compute"} -> TRUE
      [] OTHER ->
            IF filter.operator \notin {"==", "=~"} THEN TRUE
            ELSE IF filter.name \notin DOMAIN topResult THEN FALSE
            ELSE topResult[filter.name] = filter.value

RECURSIVE isFilterCompatibleWithResult(_, _)

isFilterCompatibleWithResult(topResult, filter) ==
    CASE filter.kind \in {"True", "DontCare"} -> TRUE
      [] filter.kind = "False" -> FALSE
      [] filter.kind = "And" ->
            \A i \in 1..Len(filter.operands) : isFilterCompatibleWithResult(topResult, filter.operands[i])
      [] filter.kind = "Or" ->
            \E i \in 1..Len(filter.operands) : isFilterCompatibleWithResult(topResult, filter.operands[i])
      [] filter.kind = "Not" -> ~isFilterCompatibleWithResult(topResult, filter.expr)
      [] filter.kind \in {"External", "Compute"} -> TRUE
      [] OTHER ->
            IF filter.name \notin DOMAIN topResult THEN FALSE
            ELSE IF filter.operator \in {"==", "=~"} THEN topResult[filter.name] = filter.value
            ELSE TRUE

setsIntersect(s1, s2) == \E el \in s1 : el \in s2

\* mutant: the visitor does not look below a negation
RECURSIVE getParamsInFilterNotBelowNot(_)

getParamsInFilterNotBelowNot(filter) ==
    CASE filter.kind \in {"Atom", "DontCare"} -> {filter.name}
      [] filter.kind \in {"And", "Or"} ->
            UNION {getParamsInFilterNotBelowNot(filter.operands[i]) : i \in 1..Len(filter.operands)}
      [] OTHER -> {}

RECURSIVE getParamsInFilter(_)

getParamsInFilter(filter) ==
    CASE filter.kind \in {"Atom", "DontCare"} -> {filter.name}
      [] filter.kind = "Not" -> getParamsInFilter(filter.expr)
      [] filter.kind \in {"And", "Or"} ->
            UNION {getParamsInFilter(filter.operands[i]) : i \in 1..Len(filter.operands)}
      [] OTHER -> {}

\* mutant: an atom on id is replaced whatever its operator
RECURSIVE neutralizeIDFilterAnyOperator(_)

neutralizeIDFilterAnyOperator(ast) ==
    CASE ast.kind = "Not" -> Not(neutralizeIDFilterAnyOperator(ast.expr))
      [] ast.kind = "Or" ->
            Or([i \in 1..Len(ast.operands) |-> neutralizeIDFilterAnyOperator(ast.operands[i])])
      [] ast.kind = "And" ->
            And([i \in 1..Len(ast.operands) |-> neutralizeIDFilterAnyOperator(ast.operands[i])])
      [] ast.kind \in {"True", "DontCare", "False", "Compute", "External"} -> ast
      [] OTHER -> IF ast.name = "id" THEN TrueExpr ELSE ast

RECURSIVE neutralizeIDFilter(_), neutralizeIDFilterAll(_)

neutralizeIDFilter(ast) ==
    CASE ast.kind = "Not" -> Not(neutralizeIDFilter(ast.expr))
      [] ast.kind = "Or" -> Or(neutralizeIDFilterAll(ast.operands))
      [] ast.kind = "And" -> And(neutralizeIDFilterAll(ast.operands))
      [] ast.kind \in {"True", "DontCare", "False", "Compute", "External"} -> ast
      [] OTHER -> IF ast.name = "id" /\ ast.operator = "==" THEN TrueExpr ELSE ast

\* operands.map(neutralizeIDFilter)
neutralizeIDFilterAll(operands) == [i \in 1..Len(operands) |-> neutralizeIDFilter(operands[i])]

refineFilterToAnswerQuestion(ctx, refined) ==
    IF setsIntersect(getParamsInFilter(ctx), getParamsInFilter(refined)) THEN Null
    ELSE optimize(And(<<neutralizeIDFilter(ctx), refined>>))

\* the operands the slot extraction and the strategies iterate over
operandsOf(filter) == IF filter.kind = "And" THEN filter.operands ELSE <<filter>>

\* the last of the operands at the indexes given: slots[name] = operand in a
\* loop lets a later operand on the same name overwrite an earlier one
lastOperand(operands, indexes) ==
    operands[CHOOSE i \in indexes : \A j \in indexes : j <= i]

\* the slot map built from the operands at the indexes given
slotMap(operands, indexes) ==
    [n \in {operands[i].name : i \in indexes} |->
        lastOperand(operands, {i \in indexes : operands[i].name = n})]

\* the same for negated operands: named by operand.expr, holding the operand
negatedSlotMap(operands, indexes) ==
    [n \in {operands[i].expr.name : i \in indexes} |->
        lastOperand(operands, {i \in indexes : operands[i].expr.name = n})]

negatedSlotIndexes(operands) ==
    {i \in 1..Len(operands) : operands[i].kind = "Not" /\ operands[i].expr.kind \in {"Atom", "DontCare"}}

\* mutant: a negated DontCare is not a negated slot
negatedSlotIndexesAtomsOnly(operands) ==
    {i \in 1..Len(operands) : operands[i].kind = "Not" /\ operands[i].expr.kind = "Atom"}

negatedSlotsOfOperands(operands) == negatedSlotMap(operands, negatedSlotIndexes(operands))

\* mutant: a negated DontCare is not a negated slot
filterToNegatedSlotsAtomsOnly(filter) ==
    negatedSlotMap(operandsOf(optimize(filter)),
                   negatedSlotIndexesAtomsOnly(operandsOf(optimize(filter))))

filterToNegatedSlots(filter) == negatedSlotsOfOperands(operandsOf(optimize(filter)))

slotIndexes(operands) == {i \in 1..Len(operands) : operands[i].kind \in {"Atom", "DontCare"}}

slotsOfOperands(operands) == slotMap(operands, slotIndexes(operands))

\* mutant: the filter is not simplified first
filterToSlotsBeforeSimplifying(filter) == slotsOfOperands(operandsOf(filter))

filterToSlots(filter) == slotsOfOperands(operandsOf(optimize(filter)))

\* mutant: any number of fields may change
answerOrChangeRejectsAllowsManyChanges(ctxSlots, refinedSlots, negatedRefinedSlots) ==
    \E key \in DOMAIN ctxSlots :
        \/ key \in DOMAIN negatedRefinedSlots
        \/ /\ key \in DOMAIN refinedSlots
           /\ \/ ctxSlots[key].kind = "DontCare"
              \/ refinedSlots[key] = ctxSlots[key]

\* mutant: a don't-care of the context may be overridden
answerOrChangeRejectsAllowsDontCare(ctxSlots, refinedSlots, negatedRefinedSlots) ==
    \/ \E key \in DOMAIN ctxSlots :
          \/ key \in DOMAIN negatedRefinedSlots
          \/ key \in DOMAIN refinedSlots /\ refinedSlots[key] = ctxSlots[key]
    \/ Cardinality({key \in DOMAIN ctxSlots : key \in DOMAIN refinedSlots}) > 1

\* the loop over the context slots: does it return null
answerOrChangeRejects(ctxSlots, refinedSlots, negatedRefinedSlots) ==
    \/ \E key \in DOMAIN ctxSlots :
          \/ key \in DOMAIN negatedRefinedSlots
          \/ /\ key \in DOMAIN refinedSlots
             /\ \/ ctxSlots[key].kind = "DontCare"
                \/ refinedSlots[key] = ctxSlots[key]
    \* a second changed parameter
    \/ Cardinality({key \in DOMAIN ctxSlots : key \in DOMAIN refinedSlots}) > 1

\* mutant: every clause naming a restated field is dropped, whatever its shape
answerOrChangeClausesDropsAnyShape(ctxOpt, refinedSlots) ==
    neutralizeIDFilterAll(
        SelectSeq(operandsOf(ctxOpt),
                  LAMBDA clause : getParamsInFilter(clause) \cap DOMAIN refinedSlots = {}))

\* the clauses of the context that go into the result (newCtxClauses)
answerOrChangeClauses(ctxOpt, refinedSlots) ==
    neutralizeIDFilterAll(
        SelectSeq(operandsOf(ctxOpt),
                  LAMBDA clause : ~(clause.kind \in {"Atom", "DontCare"}
                                    /\ clause.name \in DOMAIN refinedSlots)))

\* the strategy once both filters are simplified and the slots extracted
answerOrChangeOfSlots(ctxOpt, refinedOpt, ctxSlots, refinedSlots, negatedRefinedSlots) ==
    IF answerOrChangeRejects(ctxSlots, refinedSlots, negatedRefinedSlots) THEN Null
    ELSE optimize(And(answerOrChangeClauses(ctxOpt, refinedSlots) \o <<refinedOpt>>))

answerOrChangeOfOptimized(ctxOpt, refinedOpt) ==
    answerOrChangeOfSlots(ctxOpt, refinedOpt, filterToSlots(ctxOpt), filterToSlots(refinedOpt),
                          filterToNegatedSlots(refinedOpt))

refineFilterToAnswerQuestionOrChangeFilter(ctx, refined) ==
    answerOrChangeOfOptimized(optimize(ctx), optimize(refined))

\* mutant: a clause with an External sub-predicate is kept
RECURSIVE clauseIsGoodKeepsExternal(_, _)

clauseIsGoodKeepsExternal(clause, refined) ==
    CASE clause.kind \in {"Atom", "DontCare"} -> ~filterUsesParam(refined, clause.name)
      [] clause.kind = "Not" -> clauseIsGoodKeepsExternal(clause.expr, refined)
      [] clause.kind \in {"And", "Or"} ->
            \A i \in 1..Len(clause.operands) : clauseIsGoodKeepsExternal(clause.operands[i], refined)
      [] OTHER -> TRUE

\* the visitor of refineFilterToChangeFilter: is the context clause kept
RECURSIVE clauseIsGood(_, _)

clauseIsGood(clause, refined) ==
    CASE clause.kind = "External" -> FALSE
      [] clause.kind \in {"Atom", "DontCare"} -> ~filterUsesParam(refined, clause.name)
      [] clause.kind = "Not" -> clauseIsGood(clause.expr, refined)
      [] clause.kind \in {"And", "Or"} ->
            \A i \in 1..Len(clause.operands) : clauseIsGood(clause.operands[i], refined)
      [] OTHER -> TRUE

\* the two loops over the slots: does refineFilterToChangeFilter return null
changeFilterRejects(ctxSlots, refinedSlots) ==
    \/ \E key \in DOMAIN ctxSlots :
          key \in DOMAIN refinedSlots /\ refinedSlots[key] = ctxSlots[key]
    \/ \E key \in DOMAIN refinedSlots : key \notin DOMAIN ctxSlots

changeFilterOfOptimized(ctxOpt, refinedOpt) ==
    IF changeFilterRejects(filterToSlots(ctxOpt), filterToSlots(refinedOpt)) THEN Null
    ELSE optimize(And(SelectSeq(operandsOf(ctxOpt), LAMBDA clause : clauseIsGood(clause, refinedOpt))
                      \o <<refinedOpt>>))

refineFilterToChangeFilter(ctx, refined) == changeFilterOfOptimized(optimize(ctx), optimize(refined))

(***************************************************************************)
(* Query expressions (Ast.Table): one record per node.                     *)
(***************************************************************************)
InvocationTable == [kind |-> "Invocation"]

FilterTable(t, f) == [kind |-> "Filter", table |-> t, filter |-> f]

ProjectionTable(t, a) == [kind |-> "Projection", table |-> t, args |-> a]

JoinTable(l, r) == [kind |-> "Join", lhs |-> l, rhs |-> r]

Wrapper(k, t) == [kind |-> k, table |-> t]

Leaf(k) == [kind |-> k]

UnsupportedKinds == {"Sequence", "History", "Window", "TimeSeries"}

\* mutant: an Aggregation is not refused
NonFilterableKindsButAggregation == {"VarRef", "ResultRef"}

NonFilterableKinds == {"Aggregation", "VarRef", "ResultRef"}

PassThroughKinds == {"Sort", "Index", "Slice", "Projection", "Compute", "Alias"}

\* the absent question of emptySearchChangePair
NullName == "null"

\* an explicit projection: the array of field names
Names(a) == [kind |-> "Names", args |-> a]

\* the loop of findOrMakeFilterTable: where the descent from table ends
RECURSIVE findFrom(_, _)

findFrom(table, path) ==
    IF table.kind = "Filter" THEN [outcome |-> "found", path |-> path]
    ELSE IF table.kind \in UnsupportedKinds THEN [outcome |-> "throw", path |-> path]
    ELSE IF table.kind \in NonFilterableKinds THEN [outcome |-> "null", path |-> path]
    ELSE IF table.kind \in PassThroughKinds THEN findFrom(table.table, Append(path, "table"))
    ELSE IF table.kind = "Join" THEN findFrom(table.rhs, Append(path, "rhs"))
    ELSE [outcome |-> "make", path |-> path]

RECURSIVE nodeAt(_, _)

nodeAt(table, path) ==
    IF path = <<>> THEN table
    ELSE IF Head(path) = "rhs" THEN nodeAt(table.rhs, Tail(path))
    ELSE nodeAt(table.table, Tail(path))

\* the assignment holder.rhs = node / holder.table = node, seen from the root
RECURSIVE replaceAt(_, _, _)

replaceAt(table, path, node) ==
    IF path = <<>> THEN node
    ELSE IF Head(path) = "rhs" THEN [table EXCEPT !.rhs = replaceAt(table.rhs, Tail(path), node)]
    ELSE [table EXCEPT !.table = replaceAt(table.table, Tail(path), node)]

\* what findOrMakeFilterTable returns when its loop ends at path with outcome
findOrMakeFilterTableAt(root, outcome, path) ==
    CASE outcome = "throw" ->
            [outcome |-> "throw", error |-> "NOT IMPLEMENTED"]
      [] outcome = "null" ->
            [outcome |-> "return", root |-> Null, filterTable |-> Null, path |-> <<>>]
      [] outcome = "make" ->
            [outcome |-> "return",
             root |-> replaceAt(root, path, FilterTable(nodeAt(root, path), TrueExpr)),
             filterTable |-> FilterTable(nodeAt(root, path), TrueExpr), path |-> path]
      [] OTHER ->
            [outcome |-> "return", root |-> root, filterTable |-> nodeAt(root, path), path |-> path]

findOrMakeFilterTableEnd(root, end) == findOrMakeFilterTableAt(root, end.outcome, end.path)

\* returns [root, filterTable]; path is where filterTable sits in root
findOrMakeFilterTable(root) == findOrMakeFilterTableEnd(root, findFrom(root, <<>>))

Returns(v) == [outcome |-> "return", value |-> v]

Throws(e) == [outcome |-> "throw", error |-> e]

\* mutant: the old projection is kept as it is
filterProjectionKeepsAll(oldProjection, refinedFilter_) == oldProjection

\* oldProjection.filter((pname) => !C.filterUsesParam(refinedFilter, pname))
filterProjection(oldProjection, refinedFilter_) ==
    SelectSeq(oldProjection, LAMBDA pname : ~filterUsesParam(refinedFilter_, pname))

\* the new root once the root Projection, if any, is taken off (inner)
wrapProjection(inner, args) ==
    IF Len(args) > 0 THEN Returns(ProjectionTable(inner, args)) ELSE Returns(inner)

\* mutant: the new projection is put around the old one
refineProjectionKeepsOld(cloneTable, refinedFilter_, newProjection_) ==
    IF newProjection_ # Null THEN Returns(ProjectionTable(cloneTable, newProjection_.args))
    ELSE IF cloneTable.kind = "Projection" THEN
        wrapProjection(cloneTable.table, filterProjection(cloneTable.args, refinedFilter_))
    ELSE Returns(cloneTable)

\* the projection handling of queryRefinement, after the filter was replaced
refineProjection(cloneTable, refinedFilter_, newProjection_) ==
    IF cloneTable.kind = "Projection" /\ cloneTable.table.kind = "Projection"
    THEN Throws("AssertionError")
    ELSE IF newProjection_ # Null THEN
        Returns(ProjectionTable(IF cloneTable.kind = "Projection" THEN cloneTable.table ELSE cloneTable,
                                newProjection_.args))
    ELSE IF cloneTable.kind = "Projection" THEN
        wrapProjection(cloneTable.table, filterProjection(cloneTable.args, refinedFilter_))
    ELSE Returns(cloneTable)

Strategies == {"refineFilterToAnswerQuestion", "refineFilterToChangeFilter",
               "refineFilterToAnswerQuestionOrChangeFilter"}

\* the call refineFilter(filterTable.filter, newFilter) of the strategy passed in
refineFilterCall(refineFilter, ctx, refined) ==
    CASE refineFilter = "refineFilterToAnswerQuestion" -> refineFilterToAnswerQuestion(ctx, refined)
      [] refineFilter = "refineFilterToChangeFilter" -> refineFilterToChangeFilter(ctx, refined)
      \* (one, two) => new Ast.BooleanExpression.And(null, [one, two])
      [] refineFilter = "And" -> And(<<ctx, refined>>)
      [] OTHER -> refineFilterToAnswerQuestionOrChangeFilter(ctx, refined)

\* queryRefinement from the result of the strategy on
queryRefinementRefined(found, refined, newProjection_) ==
    IF refined = Null THEN Returns(Null)
    ELSE refineProjection(
             replaceAt(found.root, found.path, [found.filterTable EXCEPT !.filter = refined]),
             refined, newProjection_)

\* queryRefinement from the result of findOrMakeFilterTable on
queryRefinementFound(found, newFilter, refineFilter, newProjection_) ==
    IF found.outcome = "throw" THEN Throws(found.error)
    \* filterTable.isFilter on null
    ELSE IF found.filterTable = Null THEN Throws("TypeError")
    ELSE IF found.filterTable.table.kind # "Invocation" THEN Throws("AssertionError")
    ELSE queryRefinementRefined(
             found, refineFilterCall(refineFilter, found.filterTable.filter, newFilter), newProjection_)

queryRefinement(ctxTable_, newFilter, refineFilter, newProjection_) ==
    queryRefinementFound(findOrMakeFilterTable(ctxTable_), newFilter, refineFilter, newProjection_)

(***************************************************************************)
(* The schema of the active function, actions and result rows.             *)
(***************************************************************************)
Argument(input, filterable, type) == [is_input |-> input, filterable |-> filterable, type |-> type]

\* the arguments of the schema of the active function, by name
schemaArguments ==
    [n \in Fields \cup {"location", "rating"} |->
        CASE n = "id" -> Argument(FALSE, TRUE, "Entity")
          [] n = "food" -> Argument(FALSE, TRUE, "String")
          [] n = "price" -> Argument(FALSE, TRUE, "Number")
          [] n = "location" -> Argument(TRUE, TRUE, "String")
          [] OTHER -> Argument(FALSE, FALSE, "Number")]

isValidSearchQuestion(questions) ==
    \A i \in 1..Len(questions) :
        /\ questions[i] \in DOMAIN schemaArguments
        /\ ~schemaArguments[questions[i]].is_input
        /\ schemaArguments[questions[i]].filterable

\* a question of a list proposal or recommendation: [qname, qtype]
Question(qname, qtype) == [qname |-> qname, qtype |-> qtype]

areQuestionsValidForContext(questions) ==
    \A i \in 1..Len(questions) :
        /\ questions[i].qname \in DOMAIN schemaArguments
        /\ questions[i].qtype = NullName \/ schemaArguments[questions[i].qname].type = questions[i].qtype

\* questions.map(([qname, qtype]) => qname)
questionNames(questions) == [i \in 1..Len(questions) |-> questions[i].qname]

\* an action: its name and the arguments of its schema in declaration order
Action(name, args) == [kind |-> "Action", name |-> name, args |-> args]

ActionArgument(name, type) == [name |-> name, type |-> type]

\* a result row: the values by field, and the type of its id
Result(value, idType) == [value |-> value, idType |-> idType]

\* the loop of findChainParam from argument i on: chainParam, undefined
\* (NullName) when the loop ends without a break
RECURSIVE findChainParamFrom(_, _, _)
findChainParamFrom(args, resultType, i) ==
    IF i > Len(args) THEN NullName
    ELSE IF args[i].type = resultType THEN args[i].name
    ELSE findChainParamFrom(args, resultType, i + 1)

\* mutant: the last argument of the type is taken
findChainParamLast(topResult, action) ==
    IF \E i \in 1..Len(action.args) : action.args[i].type = topResult.idType
    THEN Returns(action.args[CHOOSE i \in 1..Len(action.args) :
                                /\ action.args[i].type = topResult.idType
                                /\ \A j \in (i + 1)..Len(action.args) :
                                      action.args[j].type # topResult.idType].name)
    ELSE Throws("AssertionError")

\* assert(chainParam) after the loop
findChainParam(topResult, action) ==
    IF findChainParamFrom(action.args, topResult.idType, 1) = NullName
    THEN Throws("AssertionError")
    ELSE Returns(findChainParamFrom(action.args, topResult.idType, 1))

\* the value false of the program
JsFalse == [kind |-> "false"]

\* the output fields of the schema of the active function (schema.out)
schemaOut == {n \in DOMAIN schemaArguments : ~schemaArguments[n].is_input}

\* the pair of states a transition rule hands to checkStateIsValid: a system
\* state and a user state executing the query userTable
StatePair(sysAct, sysParam, userAct, userTable, userStatus) ==
    [kind |-> "StatePair",
     sysState |-> [act |-> sysAct, param |-> sysParam],
     userState |-> [act |-> userAct,
                    param |-> [kind |-> "QueryItem", table |-> userTable, confirm |-> userStatus]]]

\* checkStateIsValid: the validator accepts the pair or rejects it
checkStateIsValid(pair, valid) == IF valid THEN pair ELSE Null

\* emptySearchChangePair from the result of queryRefinement on
emptySearchChangePairRefined(newTable, question_, valid) ==
    IF newTable.outcome = "throw" THEN newTable
    ELSE IF newTable.value = Null THEN Returns(Null)
    ELSE Returns(checkStateIsValid(
             StatePair(IF question_ # NullName THEN "sys_empty_search_question" ELSE "sys_empty_search",
                       question_, "execute", newTable.value, "accepted"),
             valid))

\* emptySearchChangePair from the result of findOrMakeFilterTable on
emptySearchChangePairFound(found, newTable, question_, valid) ==
    IF found.outcome = "throw" THEN Throws(found.error)
    \* ctxFilterTable.filter on null
    ELSE IF question_ # NullName /\ found.filterTable = Null THEN Throws("TypeError")
    ELSE IF question_ # NullName /\ ~filterUsesParam(found.filterTable.filter, question_)
         THEN Returns(Null)
    ELSE emptySearchChangePairRefined(newTable, question_, valid)

emptySearchChangePair(ctxTable_, question_, phraseFilter, valid) ==
    IF question_ # NullName /\ question_ \notin schemaOut THEN Returns(Null)
    ELSE emptySearchChangePairFound(
             findOrMakeFilterTable(ctxTable_),
             queryRefinement(ctxTable_, phraseFilter, "refineFilterToChangeFilter", Null),
             question_, valid)

(***************************************************************************)
(* Dialogue states (state_manip): what a transition rule builds.           *)
(***************************************************************************)
\* makeSimpleState(ctx, dialogueAct, param)
makeSimpleState(dialogueAct, param) == Returns([act |-> dialogueAct, param |-> param])

\* addAction(ctx.clone(), dialogueAct, action, confirm)
addAction(dialogueAct, action, confirm) ==
    Returns([act |-> dialogueAct,
             param |-> [kind |-> "ActionItem", action |-> action, confirm |-> confirm]])

\* the state with the action whose parameter pname is bound to value
actionParamState(dialogueAct, action, pname, value, confirm) ==
    [act |-> dialogueAct,
     param |-> [kind |-> "ActionItem", action |-> action, pname |-> pname, value |-> value,
                confirm |-> confirm]]

\* addActionParam(ctx.clone(), dialogueAct, action, findChainParam(...), value, confirm)
addActionParam(dialogueAct, action, chainParam, value, confirm) ==
    IF chainParam.outcome = "throw" THEN chainParam
    ELSE Returns(actionParamState(dialogueAct, action, chainParam.value, value, confirm))

\* addQuery(ctx.clone(), dialogueAct, table, confirm)
addQuery(dialogueAct, table, confirm) ==
    Returns([act |-> dialogueAct,
             param |-> [kind |-> "QueryItem", table |-> table, confirm |-> confirm]])

\* checkStateIsValid(ctx, sysState, userState) on the two states built
checkStates(sysState, userState, valid) ==
    IF sysState.outcome = "throw" THEN sysState
    ELSE IF userState.outcome = "throw" THEN userState
    ELSE Returns(checkStateIsValid(
             [kind |-> "StatePair", sysState |-> sysState.value, userState |-> userState.value], valid))

\* the end of a rule whose user state executes the refined query newTable:
\* newTable === null is checked before the system state is built
refinedQueryPair(newTable, sysState, valid) ==
    IF newTable.outcome = "throw" THEN newTable
    ELSE IF newTable.value = Null THEN Returns(Null)
    ELSE checkStates(sysState, addQuery("execute", newTable.value, "accepted"), valid)

(***************************************************************************)
(* Transition rules.  A rule gets the context (its query ctxTable_, its    *)
(* active function, its results) and a fragment, and returns the pair of   *)
(* states the validator accepted, or null.  The argument valid is the      *)
(* verdict of the validator on the pair.                                   *)
(***************************************************************************)
\* a query fragment: a Filter over the invocation of a function
Request(function, filter) == [kind |-> "Request", function |-> function, filter |-> filter]

\* C.checkFilter: the filter type-checks against the schema of the table
checkFilter(filter) == getParamsInFilter(filter) \subseteq DOMAIN schemaArguments

searchQuestionState(questions) ==
    IF Len(questions) = 0 THEN makeSimpleState("sys_generic_search_question", Null)
    ELSE makeSimpleState("sys_search_question", questions)

\* mutant: the query is refined with the strategy of a changed search
preciseSearchQuestionAnswerChangesFilter(ctxTable_, currentFunction, questions, answer, valid) ==
    IF answer.function # currentFunction THEN Returns(Null)
    ELSE IF ~isValidSearchQuestion(questions) THEN Returns(Null)
    ELSE refinedQueryPair(
             queryRefinement(ctxTable_, answer.filter, "refineFilterToChangeFilter", Null),
             searchQuestionState(questions), valid)

preciseSearchQuestionAnswer(ctxTable_, currentFunction, questions, answer, valid) ==
    IF answer.function # currentFunction THEN Returns(Null)
    ELSE IF ~isValidSearchQuestion(questions) THEN Returns(Null)
    ELSE refinedQueryPair(
             queryRefinement(ctxTable_, answer.filter, "refineFilterToAnswerQuestion", Null),
             searchQuestionState(questions), valid)

impreciseSearchQuestionAnswer(ctxTable_, questions, answer, valid) ==
    IF ~isValidSearchQuestion(questions) THEN Returns(Null)
    ELSE IF ~checkFilter(answer) THEN Returns(Null)
    ELSE refinedQueryPair(
             queryRefinement(ctxTable_, answer, "refineFilterToAnswerQuestion", Null),
             makeSimpleState("sys_search_question", questions), valid)

proposalReplyPair(ctxTable_, currentFunction, proposal, request, valid) ==
    IF request.function # currentFunction THEN Returns(Null)
    ELSE refinedQueryPair(
             queryRefinement(ctxTable_, request.filter, "refineFilterToAnswerQuestion", Null),
             addQuery("sys_propose_refined_query", proposal, "proposed"), valid)

\* the system state of a recommendation of topResult, with or without action
recommendationState(dialogueAct, topResult, action) ==
    IF action = Null THEN makeSimpleState(dialogueAct, Null)
    ELSE addActionParam(dialogueAct, action, findChainParam(topResult, action),
                        topResult.value["id"], "proposed")

negativeRecommendationReplyPair(ctxTable_, currentFunction, topResult, action, request, valid) ==
    IF request.function # currentFunction THEN Returns(Null)
    ELSE refinedQueryPair(
             queryRefinement(ctxTable_, request.filter,
                             "refineFilterToAnswerQuestionOrChangeFilter", Null),
             recommendationState("sys_recommend_one", topResult, action), valid)

positiveRecommendationReplyPair(topResult, actionProposal, acceptedAction, valid) ==
    checkStates(recommendationState("sys_recommend_one", topResult, actionProposal),
                IF acceptedAction = Null THEN makeSimpleState("learn_more", Null)
                ELSE addActionParam("execute", acceptedAction,
                                    findChainParam(topResult, acceptedAction),
                                    topResult.value["id"], "accepted"),
                valid)

\* the system state of a list proposal, with or without action
listProposalState(results, action) ==
    IF action = Null
    THEN makeSimpleState(IF Len(results) = 2 THEN "sys_recommend_two" ELSE "sys_recommend_three", Null)
    ELSE addAction(IF Len(results) = 2 THEN "sys_recommend_two" ELSE "sys_recommend_three",
                   action, "proposed")

listProposalSearchQuestionPair(ctxTable_, results, name, actionProposal, questions, valid) ==
    IF ~areQuestionsValidForContext(questions) THEN Returns(JsFalse)
    ELSE refinedQueryPair(
             queryRefinement(ctxTable_, Atom("id", "==", name), "refineFilterToAnswerQuestion",
                             Names(questionNames(questions))),
             listProposalState(results, actionProposal), valid)

\* recommendationSearchQuestionPair once topResult and the dialogue act are set
recommendationSearchQuestionOf(ctxTable_, sysDialogueAct, topResult, actionProposal, questions, valid) ==
    refinedQueryPair(
        queryRefinement(ctxTable_, Atom("id", "==", topResult.value["id"]),
                        "refineFilterToAnswerQuestion", Names(questionNames(questions))),
        recommendationState(sysDialogueAct, topResult, actionProposal), valid)

recommendationSearchQuestionPair(ctxTable_, ctxResults, topResult, actionProposal, questions, valid) ==
    IF ~areQuestionsValidForContext(questions) THEN Returns(JsFalse)
    ELSE IF topResult # Null
         THEN recommendationSearchQuestionOf(ctxTable_, "sys_recommend_one", topResult,
                                             actionProposal, questions, valid)
    ELSE IF actionProposal # Null THEN Throws("AssertionError")
    \* ctx.results[0].value on undefined
    ELSE IF Len(ctxResults) = 0 THEN Throws("TypeError")
    ELSE recommendationSearchQuestionOf(ctxTable_, "sys_learn_more_what", ctxResults[1],
                                        actionProposal, questions, valid)

\* next: is there a pending next turn in the context (ctx.next)
\* mutant: the dialogue is closed whatever is pending
recommendationCancelPairIgnoresNext(next, topResult, actionProposal, valid) ==
    checkStates(recommendationState("sys_recommend_one", topResult, actionProposal),
                makeSimpleState("cancel", Null), valid)

recommendationCancelPair(next, topResult, actionProposal, valid) ==
    IF next THEN Returns(Null)
    ELSE checkStates(recommendationState("sys_recommend_one", topResult, actionProposal),
                     makeSimpleState("cancel", Null), valid)

negativeListProposalReplyPair(ctxTable_, currentFunction, results, action, request, valid) ==
    IF request.function # currentFunction THEN Returns(Null)
    ELSE refinedQueryPair(
             queryRefinement(ctxTable_, request.filter,
                             "refineFilterToAnswerQuestionOrChangeFilter", Null),
             listProposalState(results, action), valid)

positiveListProposalReplyPair(ctxTable_, results, actionProposal, name, acceptedAction, valid) ==
    IF acceptedAction = Null
    THEN refinedQueryPair(queryRefinement(ctxTable_, Atom("id", "==", name), "And", Null),
                          listProposalState(results, actionProposal), valid)
    ELSE checkStates(listProposalState(results, actionProposal),
                     addActionParam("execute", acceptedAction,
                                    findChainParam(results[1], acceptedAction), name, "accepted"),
                     valid)

\* the argument checks of addDontCare on dontcare.name
dontCareArgumentIsValid(name) ==
    /\ name \in DOMAIN schemaArguments
    /\ ~schemaArguments[name].is_input
    /\ schemaArguments[name].filterable

\* addDontCare from the result of findOrMakeFilterTable on
addDontCareFound(found, dontcare) ==
    IF found.outcome = "throw" THEN Throws(found.error)
    \* filterTable.filter on null
    ELSE IF found.filterTable = Null THEN Throws("TypeError")
    ELSE IF filterUsesParam(found.filterTable.filter, dontcare.name) THEN Returns(Null)
    ELSE Returns(replaceAt(found.root, found.path,
                           [found.filterTable EXCEPT
                               !.filter = optimize(And(<<found.filterTable.filter, dontcare>>))]))

\* addDontCare on the query of the statement (Null: the statement has none);
\* it returns the query of the statement it returns
addDontCare(table, dontcare) ==
    IF table = Null THEN Returns(Null)
    ELSE IF ~dontCareArgumentIsValid(dontcare.name) THEN Returns(Null)
    ELSE addDontCareFound(findOrMakeFilterTable(table), dontcare)

(***************************************************************************)
(* The predicate algebra as a state machine: the context filter and the    *)
(* fragment's filter are drawn in Init, each action applies one strategy.  *)
(***************************************************************************)
Init ==
    /\ pc = "start"
    /\ ctxFilter \in Filters
    /\ refinedFilter \in Filters
    /\ ctxTable = InvocationTable
    /\ newProjection = Null
    /\ strategy = "none"
    /\ question = NullName
    /\ ret = Null
    /\ raised = "none"
    /\ heap = <<>>
    /\ stmt = 0
    /\ calls = 0
    /\ ctxInfo = Null
    /\ fragment = Null

AnswerQuestion ==
    /\ pc = "start"
    /\ pc' = "refineFilterToAnswerQuestion"
    /\ ret' = refineFilterToAnswerQuestion(ctxFilter, refinedFilter)
    /\ UNCHANGED <<ctxFilter, refinedFilter, ctxTable, newProjection, strategy, question, raised, dialogueVars>>

ChangeFilter ==
    /\ pc = "start"
    /\ pc' = "refineFilterToChangeFilter"
    /\ ret' = refineFilterToChangeFilter(ctxFilter, refinedFilter)
    /\ UNCHANGED <<ctxFilter, refinedFilter, ctxTable, newProjection, strategy, question, raised, dialogueVars>>

AnswerQuestionOrChangeFilter ==
    /\ pc = "start"
    /\ pc' = "refineFilterToAnswerQuestionOrChangeFilter"
    /\ ret' = refineFilterToAnswerQuestionOrChangeFilter(ctxFilter, refinedFilter)
    /\ UNCHANGED <<ctxFilter, refinedFilter, ctxTable, newProjection, strategy, question, raised, dialogueVars>>

Next == AnswerQuestion \/ ChangeFilter \/ AnswerQuestionOrChangeFilter

Spec == Init /\ [][Next]_vars

(***************************************************************************)
(* Query refinement as a state machine: the context query, the fragment's  *)
(* filter, the strategy and the explicit projection are drawn in Init; the *)
(* actions call queryRefinement and emptySearchChangePair on them.         *)
(***************************************************************************)
QueryFilters ==
    {TrueExpr, ExternalExpr, DontCare("price"), Not(Atom("food", "==", 1))}
    \cup {Atom(n, "==", v) : n \in Fields, v \in Values}
    \cup {And(<<Atom("food", "==", 1), Atom("price", "==", v)>>) : v \in Values}

QueryProjections == {<<"food">>, <<"price", "food">>}

BaseTables(f) ==
    {InvocationTable, FilterTable(InvocationTable, f), FilterTable(Wrapper("Sort", InvocationTable), f)}
    \cup {Leaf(k) : k \in UnsupportedKinds \cup {"VarRef", "ResultRef"}}

Wrapped(ts) ==
    ts \cup {Wrapper(k, t) : k \in (PassThroughKinds \ {"Projection"}) \cup {"Aggregation"}, t \in ts}
       \cup {JoinTable(InvocationTable, t) : t \in ts}

\* a Projection only ever wraps a table that is not a Projection
Projected(ts) == ts \cup {ProjectionTable(t, a) : t \in ts, a \in QueryProjections}

TablesOver(f) == Projected(Wrapped(BaseTables(f)))

InitQuery ==
    /\ pc = "start"
    /\ ctxFilter \in QueryFilters
    /\ refinedFilter \in QueryFilters
    /\ ctxTable \in TablesOver(ctxFilter)
    /\ newProjection \in {Null} \cup {Names(a) : a \in QueryProjections}
    /\ strategy \in Strategies
    /\ question = NullName
    /\ ret = Null
    /\ raised = "none"
    /\ heap = <<>>
    /\ stmt = 0
    /\ calls = 0
    /\ ctxInfo = Null
    /\ fragment = Null

\* the state after a call: the value it returned or the error it raised
Called(name, result) ==
    /\ pc' = name
    /\ ret' = IF result.outcome = "return" THEN result.value ELSE Null
    /\ raised' = IF result.outcome = "throw" THEN result.error ELSE "none"

QueryRefinement ==
    /\ pc = "start"
    /\ Called("queryRefinement", queryRefinement(ctxTable, refinedFilter, strategy, newProjection))
    /\ UNCHANGED <<ctxFilter, refinedFilter, ctxTable, newProjection, strategy, question, dialogueVars>>

EmptySearchChangePair ==
    /\ pc = "start"
    /\ newProjection = Null
    /\ strategy = "refineFilterToChangeFilter"
    /\ \E q \in {NullName, "food", "price", "distance"}, valid \in BOOLEAN :
          /\ question' = q
          /\ Called("emptySearchChangePair", emptySearchChangePair(ctxTable, q, refinedFilter, valid))
    /\ UNCHANGED <<ctxFilter, refinedFilter, ctxTable, newProjection, strategy, dialogueVars>>

NextQuery == QueryRefinement \/ EmptySearchChangePair

SpecQuery == InitQuery /\ [][NextQuery]_vars

(***************************************************************************)
(* Table objects.  A table of the program is an object that other objects  *)
(* refer to: heap[a] is the object at address a, its fields table, lhs and *)
(* rhs hold addresses, and address 0 is null.  An assignment to a field    *)
(* changes the object for everyone who holds its address.                  *)
(***************************************************************************)
MaxCalls == 2

\* the statement of the context (ctx.current.stmt), holding the query
Statement(t) == [kind |-> "Statement", table |-> t]

\* new Ast.Table...(): the object gets the next free address
allocate(h, node) == [heap |-> Append(h, node), root |-> Len(h) + 1]

RECURSIVE store(_, _)

storeOver(child, t) == allocate(child.heap, [t EXCEPT !.table = child.root])

storeJoinOver(left, right, t) ==
    allocate(right.heap, [t EXCEPT !.lhs = left.root, !.rhs = right.root])

storeJoin(left, t) == storeJoinOver(left, store(left.heap, t.rhs), t)

\* the tree t built from fresh objects
store(h, t) ==
    IF t.kind = "Join" THEN storeJoin(store(h, t.lhs), t)
    ELSE IF "table" \in DOMAIN t THEN storeOver(store(h, t.table), t)
    ELSE allocate(h, t)

\* the tree the object at address a is the root of
RECURSIVE load(_, _)

load(h, a) ==
    IF h[a].kind = "Join" THEN [h[a] EXCEPT !.lhs = load(h, h[a].lhs), !.rhs = load(h, h[a].rhs)]
    ELSE IF "table" \in DOMAIN h[a] THEN [h[a] EXCEPT !.table = load(h, h[a].table)]
    ELSE h[a]

\* node.clone(): a deep copy, no object shared with the original
clone(h, a) == store(h, load(h, a))

\* the loop of findOrMakeFilterTable on objects: table and holder when it ends
RECURSIVE heapFindFrom(_, _, _)

heapFindFrom(h, table, holder) ==
    IF h[table].kind = "Filter" THEN [outcome |-> "found", table |-> table, holder |-> holder]
    ELSE IF h[table].kind \in UnsupportedKinds
         THEN [outcome |-> "throw", table |-> table, holder |-> holder]
    ELSE IF h[table].kind \in NonFilterableKinds
         THEN [outcome |-> "null", table |-> table, holder |-> holder]
    ELSE IF h[table].kind \in PassThroughKinds THEN heapFindFrom(h, h[table].table, table)
    ELSE IF h[table].kind = "Join" THEN heapFindFrom(h, h[table].rhs, table)
    ELSE [outcome |-> "make", table |-> table, holder |-> holder]

\* mutant: the new Filter is put on the left of a join
heapSetChildLeft(h, holder, child) ==
    IF h[holder].kind = "Join" THEN [h EXCEPT ![holder].lhs = child]
    ELSE [h EXCEPT ![holder].table = child]

\* holder.rhs = newFilterTable / holder.table = newFilterTable, in place
heapSetChild(h, holder, child) ==
    IF h[holder].kind = "Join" THEN [h EXCEPT ![holder].rhs = child]
    ELSE [h EXCEPT ![holder].table = child]

\* the Filter made up right before the invocation, spliced under its holder
heapMakeFilterTable(made, root, holder) ==
    IF holder = 0
    THEN [outcome |-> "return", heap |-> made.heap, root |-> made.root, filterTable |-> made.root]
    ELSE [outcome |-> "return", heap |-> heapSetChild(made.heap, holder, made.root),
          root |-> root, filterTable |-> made.root]

heapFindOrMakeFilterTableEnd(h, root, end) ==
    CASE end.outcome = "throw" -> [outcome |-> "throw", error |-> "NOT IMPLEMENTED", heap |-> h]
      [] end.outcome = "null" -> [outcome |-> "return", heap |-> h, root |-> 0, filterTable |-> 0]
      [] end.outcome = "make" ->
            heapMakeFilterTable(allocate(h, FilterTable(end.table, TrueExpr)), root, end.holder)
      [] OTHER -> [outcome |-> "return", heap |-> h, root |-> root, filterTable |-> end.table]

\* findOrMakeFilterTable on objects: [root, filterTable] and the heap it leaves
heapFindOrMakeFilterTable(h, root) == heapFindOrMakeFilterTableEnd(h, root, heapFindFrom(h, root, 0))

\* a call's outcome on objects: the heap it leaves and the address it returns
HeapReturns(h, a) == [outcome |-> "return", heap |-> h, value |-> a]

HeapThrows(h, e) == [outcome |-> "throw", heap |-> h, error |-> e]

heapUnwrapProjection(h, cloneTable) ==
    IF h[cloneTable].kind = "Projection" THEN h[cloneTable].table ELSE cloneTable

heapReturnAllocated(made) == HeapReturns(made.heap, made.root)

heapWrapProjection(h, inner, args) ==
    IF Len(args) > 0 THEN heapReturnAllocated(allocate(h, ProjectionTable(inner, args)))
    ELSE HeapReturns(h, inner)

\* the projection handling of queryRefinement on objects
heapRefineProjectionOf(h, cloneTable, inner, refinedFilter_, newProjection_) ==
    IF h[inner].kind = "Projection" THEN HeapThrows(h, "AssertionError")
    ELSE IF newProjection_ # Null
         THEN heapReturnAllocated(allocate(h, ProjectionTable(inner, newProjection_.args)))
    ELSE IF h[cloneTable].kind = "Projection"
         THEN heapWrapProjection(h, inner, filterProjection(h[cloneTable].args, refinedFilter_))
    ELSE HeapReturns(h, cloneTable)

heapRefineProjection(h, cloneTable, refinedFilter_, newProjection_) ==
    heapRefineProjectionOf(h, cloneTable, heapUnwrapProjection(h, cloneTable),
                           refinedFilter_, newProjection_)

\* filterTable.filter = refinedFilter, in place, and the projection handling
heapQueryRefinementRefined(found, refined, newProjection_) ==
    IF refined = Null THEN HeapReturns(found.heap, 0)
    ELSE heapRefineProjection([found.heap EXCEPT ![found.filterTable].filter = refined],
                              found.root, refined, newProjection_)

heapQueryRefinementFound(found, newFilter, refineFilter, newProjection_) ==
    IF found.outcome = "throw" THEN HeapThrows(found.heap, found.error)
    ELSE IF found.filterTable = 0 THEN HeapThrows(found.heap, "TypeError")
    ELSE IF found.heap[found.heap[found.filterTable].table].kind # "Invocation"
         THEN HeapThrows(found.heap, "AssertionError")
    ELSE heapQueryRefinementRefined(
             found, refineFilterCall(refineFilter, found.heap[found.filterTable].filter, newFilter),
             newProjection_)

heapQueryRefinementCloned(cloned, newFilter, refineFilter, newProjection_) ==
    heapQueryRefinementFound(heapFindOrMakeFilterTable(cloned.heap, cloned.root),
                             newFilter, refineFilter, newProjection_)

\* mutant: queryRefinement works on the table it was given
queryRefinementCloneAliases(h, ctxTable_) == [heap |-> h, root |-> ctxTable_]

\* let cloneTable = ctxTable.clone()
queryRefinementClone(h, ctxTable_) == clone(h, ctxTable_)

\* queryRefinement on objects: ctxTable_ is the address of the table passed in
heapQueryRefinement(h, ctxTable_, newFilter, refineFilter, newProjection_) ==
    heapQueryRefinementCloned(queryRefinementClone(h, ctxTable_), newFilter, refineFilter,
                              newProjection_)

\* makeRefinementProposal from the result of findOrMakeFilterTable on
heapMakeRefinementProposalFound(found, proposal) ==
    IF found.outcome = "throw" THEN HeapThrows(found.heap, found.error)
    ELSE IF found.filterTable = 0 THEN HeapReturns(found.heap, Null)
    ELSE IF refineFilterToAnswerQuestion(found.heap[found.filterTable].filter, proposal.filter) = Null
         THEN HeapReturns(found.heap, Null)
    ELSE HeapReturns(found.heap, proposal)

heapMakeRefinementProposalCloned(cloned, proposal) ==
    heapMakeRefinementProposalFound(heapFindOrMakeFilterTable(cloned.heap, cloned.root), proposal)

\* makeRefinementProposal on objects; it returns the proposal itself or null
heapMakeRefinementProposal(h, ctxTable_, proposal) ==
    heapMakeRefinementProposalCloned(clone(h, ctxTable_), proposal)

\* addDontCare after clone.table = cloneTable
heapAddDontCareAssigned(h, filterTable, cloneStmt, dontcare) ==
    \* filterTable.filter on null
    IF filterTable = 0 THEN HeapThrows(h, "TypeError")
    ELSE IF filterUsesParam(h[filterTable].filter, dontcare.name) THEN HeapReturns(h, 0)
    ELSE HeapReturns([h EXCEPT ![filterTable].filter = optimize(And(<<h[filterTable].filter, dontcare>>))],
                     cloneStmt)

heapAddDontCareFound(found, cloneStmt, dontcare) ==
    IF found.outcome = "throw" THEN HeapThrows(found.heap, found.error)
    ELSE heapAddDontCareAssigned([found.heap EXCEPT ![cloneStmt].table = found.root],
                                 found.filterTable, cloneStmt, dontcare)

heapAddDontCareCloned(cloned, dontcare) ==
    heapAddDontCareFound(heapFindOrMakeFilterTable(cloned.heap, cloned.heap[cloned.root].table),
                         cloned.root, dontcare)

\* addDontCare on objects: stmt_ is the address of the statement passed in
heapAddDontCare(h, stmt_, dontcare) ==
    IF h[stmt_].table = 0 THEN HeapReturns(h, 0)
    ELSE IF ~dontCareArgumentIsValid(dontcare.name) THEN HeapReturns(h, 0)
    ELSE heapAddDontCareCloned(clone(h, stmt_), dontcare)

\* emptySearchChangePair from the result of findOrMakeFilterTable on the clone on
heapEmptySearchChangePairFound(found, currentTable, question_, phraseFilter) ==
    IF found.outcome = "throw" THEN HeapThrows(found.heap, found.error)
    ELSE IF question_ # NullName /\ found.filterTable = 0 THEN HeapThrows(found.heap, "TypeError")
    ELSE IF question_ # NullName /\ ~filterUsesParam(found.heap[found.filterTable].filter, question_)
         THEN HeapReturns(found.heap, 0)
    ELSE heapQueryRefinement(found.heap, currentTable, phraseFilter, "refineFilterToChangeFilter", Null)

\* const clone = ctx.clone(): the statement of the clone is a deep copy
heapEmptySearchChangePairCloned(cloned, currentTable, question_, phraseFilter) ==
    heapEmptySearchChangePairFound(
        heapFindOrMakeFilterTable(cloned.heap, cloned.heap[cloned.root].table),
        currentTable, question_, phraseFilter)

\* emptySearchChangePair on objects, up to the new table of the user state
heapEmptySearchChangePair(h, stmt_, question_, phraseFilter) ==
    IF question_ # NullName /\ question_ \notin schemaOut THEN HeapReturns(h, 0)
    ELSE heapEmptySearchChangePairCloned(clone(h, stmt_), h[stmt_].table, question_, phraseFilter)

(***************************************************************************)
(* Calls on one context as a state machine: the query of the context is    *)
(* drawn in Init and built from objects; each action is one call that is   *)
(* handed the context, with arguments drawn from small sets.               *)
(***************************************************************************)
HeapFilter == Atom("food", "==", 1)

HeapFragments == {Atom("price", "==", 1), Atom("food", "==", 2), DontCare("price")}

HeapProjections == {Null, Names(<<"food">>)}

HeapTables ==
    {InvocationTable, FilterTable(InvocationTable, HeapFilter),
     Wrapper("Sort", InvocationTable), Wrapper("Sort", FilterTable(InvocationTable, HeapFilter)),
     JoinTable(InvocationTable, InvocationTable),
     JoinTable(InvocationTable, FilterTable(InvocationTable, HeapFilter)),
     ProjectionTable(InvocationTable, <<"food">>),
     ProjectionTable(FilterTable(InvocationTable, HeapFilter), <<"price", "food">>),
     ProjectionTable(Wrapper("Index", InvocationTable), <<"price">>),
     Wrapper("Alias", JoinTable(InvocationTable, Wrapper("Slice", InvocationTable))),
     FilterTable(Wrapper("Sort", InvocationTable), HeapFilter),
     Leaf("VarRef"), Wrapper("Aggregation", InvocationTable), Leaf("Sequence")}

InitHeap ==
    /\ pc = "start"
    /\ ctxFilter = HeapFilter
    /\ refinedFilter = TrueExpr
    /\ ctxTable \in HeapTables
    /\ newProjection = Null
    /\ strategy = "none"
    /\ question = NullName
    /\ ret = Null
    /\ raised = "none"
    /\ heap = store(<<>>, Statement(ctxTable)).heap
    /\ stmt = Len(heap)
    /\ calls = 0
    /\ ctxInfo = Null
    /\ fragment = Null

\* the state after a call on objects: the heap it left, the tree it returned
HeapCalled(name, result) ==
    /\ pc' = name
    /\ calls' = calls + 1
    /\ heap' = result.heap
    /\ raised' = IF result.outcome = "throw" THEN result.error ELSE "none"
    /\ ret' = IF result.outcome = "throw" \/ result.value = 0 THEN Null
              ELSE load(result.heap, result.value)

\* queryRefinement(ctx.current.stmt.table, ...), as every rule calls it
HeapQueryRefinement ==
    /\ calls < MaxCalls
    /\ \E f \in HeapFragments, s \in Strategies, p \in HeapProjections :
          /\ refinedFilter' = f
          /\ strategy' = s
          /\ newProjection' = p
          /\ HeapCalled("queryRefinement", heapQueryRefinement(heap, heap[stmt].table, f, s, p))
    /\ UNCHANGED <<ctxFilter, ctxTable, question, stmt, ctxInfo, fragment>>

\* the state after a call on objects that returns a value, not an object
HeapCalledValue(name, result) ==
    /\ pc' = name
    /\ calls' = calls + 1
    /\ heap' = result.heap
    /\ raised' = IF result.outcome = "throw" THEN result.error ELSE "none"
    /\ ret' = IF result.outcome = "throw" THEN Null ELSE result.value

HeapMakeRefinementProposal ==
    /\ calls < MaxCalls
    /\ \E f \in HeapFragments :
          /\ refinedFilter' = f
          /\ HeapCalledValue("makeRefinementProposal",
                             heapMakeRefinementProposal(heap, heap[stmt].table,
                                                        FilterTable(InvocationTable, f)))
    /\ UNCHANGED <<ctxFilter, ctxTable, newProjection, strategy, question, stmt, ctxInfo, fragment>>

HeapAddDontCare ==
    /\ calls < MaxCalls
    /\ \E n \in {"food", "price", "location", "rating", "distance"} :
          /\ refinedFilter' = DontCare(n)
          /\ HeapCalled("addDontCare", heapAddDontCare(heap, stmt, DontCare(n)))
    /\ UNCHANGED <<ctxFilter, ctxTable, newProjection, strategy, question, stmt, ctxInfo, fragment>>

HeapEmptySearchChangePair ==
    /\ calls < MaxCalls
    /\ \E f \in HeapFragments, q \in {NullName, "food"} :
          /\ refinedFilter' = f
          /\ question' = q
          /\ HeapCalled("emptySearchChangePair", heapEmptySearchChangePair(heap, stmt, q, f))
    /\ UNCHANGED <<ctxFilter, ctxTable, newProjection, strategy, stmt, ctxInfo, fragment>>

NextHeap ==
    HeapQueryRefinement \/ HeapMakeRefinementProposal \/ HeapAddDontCare \/ HeapEmptySearchChangePair

SpecHeap == InitHeap /\ [][NextHeap]_vars

(***************************************************************************)
(* The dialogue as a state machine: the context is drawn in Init; each     *)
(* action is one transition rule called on the context with a fragment     *)
(* drawn from small sets; NextTurn makes the user query a rule returned    *)
(* the query of the next context.                                          *)
(***************************************************************************)
MaxTurns == 2

Functions == {"restaurant", "hotel"}

DialogueFilters == {Atom("food", "==", 2), Atom("price", "==", 1), DontCare("price")}

DialogueTables ==
    {InvocationTable,
     FilterTable(InvocationTable, Atom("food", "==", 1)),
     FilterTable(InvocationTable, And(<<Atom("food", "==", 1), DontCare("price")>>)),
     ProjectionTable(FilterTable(InvocationTable, Atom("food", "==", 1)), <<"price">>),
     Wrapper("Sort", InvocationTable)}

\* the result row of the entity v
Row(v) == Result([n \in Fields |-> IF n = "id" THEN v ELSE 1], "Entity")

ResultLists == {<<>>, <<Row(1), Row(2)>>, <<Row(2), Row(1), Row(2)>>}

SearchQuestions == {<<>>, <<"price">>, <<"location">>, <<"rating">>, <<"distance">>}

TypedQuestions ==
    {<<>>, <<Question("price", NullName)>>, <<Question("price", "String")>>,
     <<Question("distance", NullName)>>, <<Question("price", "Number"), Question("food", NullName)>>}

Actions ==
    {Null,
     Action("book", <<ActionArgument("count", "Number"), ActionArgument("restaurant", "Entity"),
                      ActionArgument("guest", "Entity")>>),
     Action("call", <<ActionArgument("time", "Number")>>)}

ContextInfo(currentFunction, results, next) ==
    [currentFunction |-> currentFunction, results |-> results, next |-> next]

InitDialogue ==
    /\ pc = "start"
    /\ ctxFilter = TrueExpr
    /\ refinedFilter = TrueExpr
    /\ ctxTable \in DialogueTables
    /\ newProjection = Null
    /\ strategy = "none"
    /\ question = NullName
    /\ ret = Null
    /\ raised = "none"
    /\ heap = <<>>
    /\ stmt = 0
    /\ calls = 0
    /\ ctxInfo \in {ContextInfo("restaurant", r, Len(r) = 3) : r \in ResultLists}
    /\ fragment = Null

\* the state after a rule was called with the arguments args
RuleCalled(name, args, result) ==
    /\ Called(name, result)
    /\ fragment' = args
    /\ UNCHANGED <<ctxFilter, refinedFilter, ctxTable, newProjection, strategy, question,
                   heap, stmt, calls, ctxInfo>>

PreciseSearchQuestionAnswer ==
    /\ pc = "start"
    /\ \E q \in SearchQuestions, fn \in Functions, f \in DialogueFilters, valid \in BOOLEAN :
           RuleCalled("preciseSearchQuestionAnswer",
                      [questions |-> q, function |-> fn, filter |-> f, valid |-> valid],
                      preciseSearchQuestionAnswer(ctxTable, ctxInfo.currentFunction, q, Request(fn, f), valid))

ImpreciseSearchQuestionAnswer ==
    /\ pc = "start"
    /\ \E q \in SearchQuestions, f \in DialogueFilters \cup {Atom("distance", "==", 1)}, valid \in BOOLEAN :
           RuleCalled("impreciseSearchQuestionAnswer",
                      [questions |-> q, filter |-> f, valid |-> valid],
                      impreciseSearchQuestionAnswer(ctxTable, q, f, valid))

ProposalReplyPair ==
    /\ pc = "start"
    /\ \E fn \in Functions, f \in DialogueFilters, valid \in BOOLEAN :
           RuleCalled("proposalReplyPair",
                      [function |-> fn, filter |-> f, valid |-> valid],
                      proposalReplyPair(ctxTable, ctxInfo.currentFunction,
                                        FilterTable(InvocationTable, Atom("price", "==", 2)),
                                        Request(fn, f), valid))

NegativeRecommendationReplyPair ==
    /\ pc = "start"
    /\ Len(ctxInfo.results) > 0
    /\ \E a \in Actions, fn \in Functions, f \in DialogueFilters, valid \in BOOLEAN :
          RuleCalled("negativeRecommendationReplyPair",
                     [topResult |-> ctxInfo.results[1], action |-> a, function |-> fn, filter |-> f,
                      valid |-> valid],
                     negativeRecommendationReplyPair(ctxTable, ctxInfo.currentFunction,
                                                     ctxInfo.results[1], a, Request(fn, f), valid))

PositiveRecommendationReplyPair ==
    /\ pc = "start"
    /\ Len(ctxInfo.results) > 0
    /\ \E a \in Actions, accepted \in Actions, valid \in BOOLEAN :
          RuleCalled("positiveRecommendationReplyPair",
                     [topResult |-> ctxInfo.results[1], action |-> a, acceptedAction |-> accepted,
                      valid |-> valid],
                     positiveRecommendationReplyPair(ctxInfo.results[1], a, accepted, valid))

ListProposalSearchQuestionPair ==
    /\ pc = "start"
    /\ Len(ctxInfo.results) > 1
    /\ \E name \in Values, a \in Actions, q \in TypedQuestions, valid \in BOOLEAN :
          RuleCalled("listProposalSearchQuestionPair",
                     [name |-> name, action |-> a, questions |-> q, valid |-> valid],
                     listProposalSearchQuestionPair(ctxTable, ctxInfo.results, name, a, q, valid))

RecommendationSearchQuestionPair ==
    /\ pc = "start"
    /\ \E top \in {Null} \cup {ctxInfo.results[i] : i \in 1..Len(ctxInfo.results)},
          a \in Actions, q \in TypedQuestions, valid \in BOOLEAN :
           RuleCalled("recommendationSearchQuestionPair",
                      [topResult |-> top, action |-> a, questions |-> q, valid |-> valid],
                      recommendationSearchQuestionPair(ctxTable, ctxInfo.results, top, a, q, valid))

RecommendationCancelPair ==
    /\ pc = "start"
    /\ Len(ctxInfo.results) > 0
    /\ \E a \in Actions, valid \in BOOLEAN :
          RuleCalled("recommendationCancelPair",
                     [topResult |-> ctxInfo.results[1], action |-> a, valid |-> valid],
                     recommendationCancelPair(ctxInfo.next, ctxInfo.results[1], a, valid))

NegativeListProposalReplyPair ==
    /\ pc = "start"
    /\ Len(ctxInfo.results) > 1
    /\ \E a \in Actions, fn \in Functions, f \in DialogueFilters, valid \in BOOLEAN :
          RuleCalled("negativeListProposalReplyPair",
                     [action |-> a, function |-> fn, filter |-> f, valid |-> valid],
                     negativeListProposalReplyPair(ctxTable, ctxInfo.currentFunction,
                                                   ctxInfo.results, a, Request(fn, f), valid))

PositiveListProposalReplyPair ==
    /\ pc = "start"
    /\ Len(ctxInfo.results) > 1
    /\ \E a \in Actions, name \in Values, accepted \in Actions, valid \in BOOLEAN :
          RuleCalled("positiveListProposalReplyPair",
                     [action |-> a, name |-> name, acceptedAction |-> accepted, valid |-> valid],
                     positiveListProposalReplyPair(ctxTable, ctxInfo.results, a, name, accepted, valid))

DialogueEmptySearchChangePair ==
    /\ pc = "start"
    /\ \E q \in {NullName, "food", "distance"}, fn \in Functions,
          f \in DialogueFilters \cup {Not(Atom("price", "==", 1))}, valid \in BOOLEAN :
           RuleCalled("emptySearchChangePair",
                      [question |-> q, function |-> fn, filter |-> f, valid |-> valid],
                      emptySearchChangePair(ctxTable, q, f, valid))

AddDontCare ==
    /\ pc = "start"
    /\ \E n \in {"food", "price", "location", "rating", "distance"} :
           RuleCalled("addDontCare", [filter |-> DontCare(n)], addDontCare(ctxTable, DontCare(n)))

\* queryRefinement called with any strategy and projection
Refine ==
    /\ pc = "start"
    /\ \E f \in DialogueFilters, s \in Strategies,
          p \in {Null, Names(<<"food">>), Names(<<"price", "food">>)} :
           RuleCalled("queryRefinement", [filter |-> f, strategy |-> s, projection |-> p],
                      queryRefinement(ctxTable, f, s, p))

\* the query of the value a call returned, Null if it carries none
returnedQuery(value) ==
    IF value = Null \/ value = JsFalse THEN Null
    ELSE IF value.kind # "StatePair" THEN value
    ELSE IF value.userState.param = Null THEN Null
    ELSE IF value.userState.param.kind = "QueryItem" THEN value.userState.param.table
    ELSE Null

\* the user state is executed: its query is the query of the next context
NextTurn ==
    /\ pc # "start"
    /\ calls < MaxTurns
    /\ returnedQuery(ret) # Null
    /\ pc' = "start"
    /\ calls' = calls + 1
    /\ ctxTable' = returnedQuery(ret)
    /\ ret' = Null
    /\ raised' = "none"
    /\ fragment' = Null
    /\ UNCHANGED <<ctxFilter, refinedFilter, newProjection, strategy, question, heap, stmt, ctxInfo>>

NextDialogue ==
    \/ PreciseSearchQuestionAnswer
    \/ ImpreciseSearchQuestionAnswer
    \/ ProposalReplyPair
    \/ NegativeRecommendationReplyPair
    \/ PositiveRecommendationReplyPair
    \/ ListProposalSearchQuestionPair
    \/ RecommendationSearchQuestionPair
    \/ RecommendationCancelPair
    \/ NegativeListProposalReplyPair
    \/ PositiveListProposalReplyPair
    \/ DialogueEmptySearchChangePair
    \/ AddDontCare
    \/ Refine
    \/ NextTurn

SpecDialogue == InitDialogue /\ [][NextDialogue]_vars

(***************************************************************************)
(* Grounding checks: an info phrase (slot bag) against the result rows.    *)
(***************************************************************************)
\* a value of a row or of a slot bag: a scalar, or an array of scalars
Scalar(v) == [isArray |-> FALSE, value |-> v]

\* (the elements of an array are its value)
Array(vs) == [isArray |-> TRUE, elements |-> vs]

\* a slot bag: the function it is about and its values by field
SlotBag(function, bag) == [kind |-> "SlotBag", function |-> function, bag |-> bag]

\* arraySubset(small, big): every element of small is in big
arraySubset(small, big) == small \subseteq big

isInfoPhraseCompatibleWithResult(topResult, info) ==
    \A pname \in DOMAIN info.bag :
        /\ pname \in DOMAIN topResult.value
        /\ IF topResult.value[pname].isArray /\ info.bag[pname].isArray
           THEN arraySubset(info.bag[pname].elements, topResult.value[pname].elements)
           ELSE topResult.value[pname] = info.bag[pname]

\* the smaller of two numbers (Math.min)
min(a, b) == IF a < b THEN a ELSE b

\* mutant: every result row is tried
checkInfoPhraseGoodAnyRow(results, info) ==
    \E i \in 1..Len(results) : isInfoPhraseCompatibleWithResult(results[i], info)

\* mutant: each field of the bag may be matched by a row of its own
checkInfoPhraseGoodPerField(results, info) ==
    \A pname \in DOMAIN info.bag :
        \E i \in 1..min(3, Len(results)) :
            isInfoPhraseCompatibleWithResult(
                results[i], SlotBag(info.function, [n \in {pname} |-> info.bag[n]]))

\* the loop over the top 3 results of checkInfoPhrase: the value of good
checkInfoPhraseGood(results, info) ==
    \E i \in 1..min(3, Len(results)) : isInfoPhraseCompatibleWithResult(results[i], info)

\* mutant: every name of the info must be projected
checkInfoPhraseProjectionCoversInfo(projection, info) ==
    \A name \in DOMAIN info.bag : \E i \in 1..Len(projection) : projection[i] = name

\* the loop over ctx.resultInfo.projection: all projected names are present
checkInfoPhraseProjection(projection, info) ==
    \A i \in 1..Len(projection) : projection[i] \in DOMAIN info.bag

\* the loop over info.keys(): every name has a value in the top result
checkInfoPhraseTopResult(topResult, info) ==
    \A name \in DOMAIN info.bag : name \in DOMAIN topResult.value

\* checkInfoPhrase; projection is ctx.resultInfo.projection, Null or the names
checkInfoPhrase(currentFunction, projection, results, info) ==
    IF currentFunction # info.function THEN Returns(Null)
    ELSE IF projection # Null /\ ~checkInfoPhraseProjection(projection.args, info) THEN Returns(Null)
    \* assert(topResult)
    ELSE IF projection = Null /\ Len(results) = 0 THEN Throws("AssertionError")
    ELSE IF projection = Null /\ ~checkInfoPhraseTopResult(results[1], info) THEN Returns(Null)
    ELSE IF checkInfoPhraseGood(results, info) THEN Returns(info)
    ELSE Returns(Null)

(***************************************************************************)
(* checkInfoPhrase as a state machine: the context (active function,       *)
(* active projection, result rows) and the slot bag are drawn in Init.     *)
(***************************************************************************)
MaxRows == 4

InfoRows ==
    {Result([n \in {"food", "price"} |-> Scalar(1)], "Entity"),
     Result([n \in {"food"} |-> Scalar(2)], "Entity"),
     Result([n \in {"price"} |-> Array({1, 2})], "Entity"),
     Result([n \in {"food", "price"} |-> IF n = "food" THEN Scalar(2) ELSE Array({1})], "Entity")}

InfoResults == UNION {[1..n -> InfoRows] : n \in 0..MaxRows}

InfoBags ==
    {[n \in {"food"} |-> Scalar(1)], [n \in {"food"} |-> Scalar(2)],
     [n \in {"price"} |-> Scalar(1)], [n \in {"price"} |-> Array({1})],
     [n \in {"food", "price"} |-> IF n = "food" THEN Scalar(2) ELSE Scalar(1)],
     [n \in {"food", "price"} |-> IF n = "food" THEN Scalar(2) ELSE Array({1})],
     [n \in {} |-> Scalar(1)]}

InfoProjections == {Null, Names(<<"food">>), Names(<<"price", "food">>)}

ResultInfo(currentFunction, projection, results) ==
    [currentFunction |-> currentFunction, projection |-> projection, results |-> results]

InitInfo ==
    /\ pc = "start"
    /\ ctxFilter = TrueExpr
    /\ refinedFilter = TrueExpr
    /\ ctxTable = InvocationTable
    /\ newProjection = Null
    /\ strategy = "none"
    /\ question = NullName
    /\ ret = Null
    /\ raised = "none"
    /\ heap = <<>>
    /\ stmt = 0
    /\ calls = 0
    \* "we must have at least one result to be here": without an active
    \* projection the context has results
    /\ ctxInfo \in {ResultInfo("restaurant", p, r) : p \in InfoProjections, r \in InfoResults}
    /\ ctxInfo.projection = Null => Len(ctxInfo.results) > 0
    /\ fragment \in {SlotBag(fn, b) : fn \in Functions, b \in InfoBags}

CheckInfoPhrase ==
    /\ pc = "start"
    /\ Called("checkInfoPhrase",
              checkInfoPhrase(ctxInfo.currentFunction, ctxInfo.projection, ctxInfo.results, fragment))
    /\ UNCHANGED <<ctxFilter, refinedFilter, ctxTable, newProjection, strategy, question,
                   heap, stmt, calls, ctxInfo, fragment>>

NextInfo == CheckInfoPhrase

SpecInfo == InitInfo /\ [][NextInfo]_vars

(***************************************************************************)
(* Compatibility of a filter with a result row and with a slot bag.  The   *)
(* filter and the row or the bag are drawn in Init; the actions apply      *)
(* isFilterCompatibleWithResult and isFilterCompatibleWithInfo.            *)
(***************************************************************************)
\* the switch on filter.operator of isFilterCompatibleWithInfo; infoValue is
\* info.get(pname)
infoAtomIsCompatible(infoValue, operator, value) ==
    CASE operator \in {"==", "=~"} -> infoValue = Scalar(value)
      [] operator \in {"contains", "contains~"} -> value \in infoValue.elements
      [] operator \in {"in_array", "in_array~"} -> infoValue \in {Scalar(v) : v \in value}
      [] operator = ">=" -> infoValue.value >= value
      [] operator = "<=" -> infoValue.value <= value
      [] OTHER -> TRUE

RECURSIVE isFilterCompatibleWithInfo(_, _)

isFilterCompatibleWithInfo(info, filter) ==
    CASE filter.kind \in {"True", "DontCare"} -> TRUE
      [] filter.kind = "False" -> FALSE
      [] filter.kind = "Or" ->
            \E i \in 1..Len(filter.operands) : isFilterCompatibleWithInfo(info, filter.operands[i])
      [] filter.kind = "And" ->
            \A i \in 1..Len(filter.operands) : isFilterCompatibleWithInfo(info, filter.operands[i])
      [] filter.kind = "Not" -> ~isFilterCompatibleWithInfo(info, filter.expr)
      [] filter.kind \in {"External", "Compute"} -> TRUE
      [] OTHER ->
            IF filter.name \notin DOMAIN info.bag THEN FALSE
            ELSE infoAtomIsCompatible(info.bag[filter.name], filter.operator, filter.value)

\* a boolean the program returned
Boolean(b) == [kind |-> "boolean", value |-> b]

\* filters with the operators the two functions tell apart
LikeAtoms == {Atom(n, o, v) : n \in Fields, o \in {"=~", "<="}, v \in Values}

ResultFilters ==
    Filters
    \cup LikeAtoms
    \cup {Not(a) : a \in LikeAtoms \cup Atoms}
    \cup {Or(<<Not(Atom("food", "=~", 1)), a>>) : a \in LikeAtoms}
    \cup {Not(Or(<<Atom("food", ">=", 1), a>>)) : a \in LikeAtoms}

\* the values of the bags: food is a scalar, price is an array
CompatBags ==
    {[n \in D |-> IF n = "price" THEN Array(s) ELSE Scalar(v)] :
        D \in SUBSET {"food", "price"}, v \in Values, s \in SUBSET Values}

InfoAtoms ==
    {Atom("food", o, v) : o \in {"==", "=~", ">=", "<=", "starts_with"}, v \in Values}
    \cup {Atom("price", o, v) : o \in {"==", "contains", "contains~"}, v \in Values}

InfoFilters ==
    InfoAtoms
    \cup {TrueExpr, FalseExpr, ExternalExpr, ComputeExpr, DontCare("food"), DontCare("price")}
    \cup {Not(a) : a \in InfoAtoms}
    \cup {And(<<Atom("food", "==", 1), a>>) : a \in InfoAtoms}
    \cup {Or(<<Not(Atom("price", "contains", 1)), a>>) : a \in InfoAtoms}

InitCompat ==
    /\ pc = "start"
    /\ refinedFilter = TrueExpr
    /\ ctxTable = InvocationTable
    /\ newProjection = Null
    /\ question = NullName
    /\ ret = Null
    /\ raised = "none"
    /\ heap = <<>>
    /\ stmt = 0
    /\ calls = 0
    /\ \/ /\ strategy = "result"
          /\ ctxInfo \in Rows
          /\ ctxFilter \in ResultFilters
          /\ fragment = Null
       \/ /\ strategy = "info"
          /\ ctxInfo = Null
          /\ ctxFilter \in InfoFilters
          /\ fragment \in {SlotBag("restaurant", b) : b \in CompatBags}

IsFilterCompatibleWithResult ==
    /\ pc = "start"
    /\ strategy = "result"
    /\ Called("isFilterCompatibleWithResult",
              Returns(Boolean(isFilterCompatibleWithResult(ctxInfo, ctxFilter))))
    /\ UNCHANGED <<ctxFilter, refinedFilter, ctxTable, newProjection, strategy, question,
                   heap, stmt, calls, ctxInfo, fragment>>

\* isValidNegativePreambleForInfo(info, preamble) on preamble.filter
IsFilterCompatibleWithInfo ==
    /\ pc = "start"
    /\ strategy = "info"
    /\ Called("isFilterCompatibleWithInfo",
              Returns(Boolean(isFilterCompatibleWithInfo(fragment, ctxFilter))))
    /\ UNCHANGED <<ctxFilter, refinedFilter, ctxTable, newProjection, strategy, question,
                   heap, stmt, calls, ctxInfo, fragment>>

NextCompat == IsFilterCompatibleWithResult \/ IsFilterCompatibleWithInfo

SpecCompat == InitCompat /\ [][NextCompat]_vars

(***************************************************************************)
(* findOrMakeFilterTable step by step: the tree root is drawn in Init and  *)
(* built from objects; the call sets the locals table and holder, every    *)
(* iteration of the while loop is one step, and the loop ends by a return  *)
(* or a throw.                                                             *)
(***************************************************************************)
MaxDepth == 2

FindLeaves ==
    {InvocationTable,
     FilterTable(InvocationTable, HeapFilter),
     FilterTable(Wrapper("Sort", InvocationTable), HeapFilter),
     FilterTable(FilterTable(InvocationTable, TrueExpr), HeapFilter),
     Wrapper("Aggregation", InvocationTable),
     Wrapper("Aggregation", FilterTable(InvocationTable, HeapFilter))}
    \cup {Leaf(k) : k \in UnsupportedKinds \cup {"VarRef", "ResultRef"}}

FindLefts == {InvocationTable, FilterTable(InvocationTable, HeapFilter), Leaf("Sequence"), Leaf("VarRef")}

\* the trees with at most n nodes above a tree of FindLeaves
RECURSIVE FindTables(_)

FindTablesAbove(ts) ==
    ts \cup {Wrapper(k, t) : k \in PassThroughKinds \ {"Projection"}, t \in ts}
       \cup {ProjectionTable(t, <<"food">>) : t \in ts}
       \cup {JoinTable(l, t) : l \in FindLefts, t \in ts}

FindTables(n) == IF n = 0 THEN FindLeaves ELSE FindTablesAbove(FindTables(n - 1))

\* the locals of findOrMakeFilterTable
Locals(table, holder) == [table |-> table, holder |-> holder]

\* [root, filterTable]: two objects, or [null, null]
Pair(root, filterTable) == [kind |-> "Pair", root |-> root, filterTable |-> filterTable]

InitFind ==
    /\ pc = "start"
    /\ ctxFilter = HeapFilter
    /\ refinedFilter = TrueExpr
    /\ ctxTable \in FindTables(MaxDepth)
    /\ newProjection = Null
    /\ strategy = "none"
    /\ question = NullName
    /\ ret = Null
    /\ raised = "none"
    /\ heap = store(<<>>, ctxTable).heap
    /\ stmt = Len(heap)
    /\ calls = 0
    /\ ctxInfo = Null
    /\ fragment = Null

\* the end of the call: what it returned or raised, and the heap it left
FindEnds(h, value, error) ==
    /\ pc' = "findOrMakeFilterTable"
    /\ heap' = h
    /\ ret' = value
    /\ raised' = error
    /\ UNCHANGED <<ctxFilter, refinedFilter, ctxTable, newProjection, strategy, question,
                   stmt, calls, ctxInfo, fragment>>

\* one more iteration of the loop, with new locals; calls counts the
\* iterations
FindContinues(table, holder) ==
    /\ fragment' = Locals(table, holder)
    /\ calls' = calls + 1
    /\ UNCHANGED <<pc, ctxFilter, refinedFilter, ctxTable, newProjection, strategy, question,
                   ret, raised, heap, stmt, ctxInfo>>

\* let table = root; let holder = null;
FindOrMakeFilterTable ==
    /\ pc = "start"
    /\ pc' = "while"
    /\ fragment' = Locals(stmt, 0)
    /\ UNCHANGED <<ctxFilter, refinedFilter, ctxTable, newProjection, strategy, question,
                   ret, raised, heap, stmt, calls, ctxInfo>>

\* the loop condition fails: return [root, table]
ReturnFilterTable ==
    /\ pc = "while"
    /\ heap[fragment.table].kind = "Filter"
    /\ FindEnds(heap, Pair(stmt, fragment.table), "none")

ThrowNotImplemented ==
    /\ pc = "while"
    /\ heap[fragment.table].kind \in UnsupportedKinds
    /\ FindEnds(heap, Null, "NOT IMPLEMENTED")

ReturnNull ==
    /\ pc = "while"
    /\ heap[fragment.table].kind \notin UnsupportedKinds
    /\ heap[fragment.table].kind \in NonFilterableKinds
    /\ FindEnds(heap, Pair(0, 0), "none")

GoInside ==
    /\ pc = "while"
    /\ heap[fragment.table].kind \notin UnsupportedKinds \cup NonFilterableKinds
    /\ heap[fragment.table].kind \in PassThroughKinds
    /\ FindContinues(heap[fragment.table].table, fragment.table)

GoRight ==
    /\ pc = "while"
    /\ heap[fragment.table].kind \notin UnsupportedKinds \cup NonFilterableKinds \cup PassThroughKinds
    /\ heap[fragment.table].kind = "Join"
    /\ FindContinues(heap[fragment.table].rhs, fragment.table)

\* the end of MakeFilterTable from the [root, filterTable] made
MakeFilterTableEnds(made) == FindEnds(made.heap, Pair(made.root, made.filterTable), "none")

\* there is no filter table at all: make up one
MakeFilterTable ==
    /\ pc = "while"
    /\ heap[fragment.table].kind
          \notin {"Filter", "Join"} \cup UnsupportedKinds \cup NonFilterableKinds \cup PassThroughKinds
    /\ MakeFilterTableEnds(heapMakeFilterTable(allocate(heap, FilterTable(fragment.table, TrueExpr)),
                                               stmt, fragment.holder))

NextFind ==
    \/ FindOrMakeFilterTable
    \/ ReturnFilterTable
    \/ ThrowNotImplemented
    \/ ReturnNull
    \/ GoInside
    \/ GoRight
    \/ MakeFilterTable

\* a call that is made runs: the steps of the loop are taken
SpecFind == InitFind /\ [][NextFind]_vars /\ WF_vars(NextFind)

(***************************************************************************)
(* The functions on one filter: the filter is drawn in Init; the actions   *)
(* apply neutralizeIDFilter, once and once more on its result,             *)
(* filterToSlots and filterToNegatedSlots.                                 *)
(***************************************************************************)
NestedFilters ==
    {Not(Or(<<Atom("id", "==", 1), Not(Atom("id", "==", 2))>>)),
     And(<<Or(<<Atom("id", "==", 1), Atom("food", "==", 1)>>), Not(Atom("id", "==", 1))>>),
     Or(<<And(<<Atom("id", "==", 1), Atom("price", "==", 1)>>), Atom("id", ">=", 1)>>),
     Not(And(<<Atom("id", "==", 1), DontCare("id"), Atom("food", "==", 1)>>)),
     And(<<And(<<Atom("food", "==", 1), Not(DontCare("price"))>>), DontCare("id")>>),
     And(<<Atom("food", "==", 1), TrueExpr, Not(Not(Atom("price", "==", 1)))>>),
     Not(Not(Atom("food", "==", 1))),
     Not(Not(Not(Atom("food", "==", 1)))),
     And(<<Not(Or(<<Atom("food", "==", 1), Atom("price", "==", 1)>>)), Atom("id", "==", 2)>>),
     And(<<Atom("price", "==", 1), Not(Atom("food", "==", 1)), Not(Atom("food", "==", 2)),
           Atom("price", "==", 2)>>)}

\* the slot map a call returned
Slots(slots) == [kind |-> "Slots", slots |-> slots]

InitFilter ==
    /\ pc = "start"
    /\ ctxFilter \in Filters \cup NestedFilters
    /\ refinedFilter = TrueExpr
    /\ ctxTable = InvocationTable
    /\ newProjection = Null
    /\ strategy = "none"
    /\ question = NullName
    /\ ret = Null
    /\ raised = "none"
    /\ heap = <<>>
    /\ stmt = 0
    /\ calls = 0
    /\ ctxInfo = Null
    /\ fragment = Null

NeutralizeIDFilter ==
    /\ pc = "start"
    /\ Called("neutralizeIDFilter", Returns(neutralizeIDFilter(ctxFilter)))
    /\ UNCHANGED <<ctxFilter, refinedFilter, ctxTable, newProjection, strategy, question,
                   heap, stmt, calls, ctxInfo, fragment>>

\* neutralizeIDFilter on what neutralizeIDFilter returned, kept in refinedFilter
NeutralizeIDFilterAgain ==
    /\ pc = "neutralizeIDFilter"
    /\ calls = 0
    /\ calls' = 1
    /\ refinedFilter' = ret
    /\ Called("neutralizeIDFilter", Returns(neutralizeIDFilter(ret)))
    /\ UNCHANGED <<ctxFilter, ctxTable, newProjection, strategy, question, heap, stmt, ctxInfo, fragment>>

FilterToSlots ==
    /\ pc = "start"
    /\ Called("filterToSlots", Returns(Slots(filterToSlots(ctxFilter))))
    /\ UNCHANGED <<ctxFilter, refinedFilter, ctxTable, newProjection, strategy, question,
                   heap, stmt, calls, ctxInfo, fragment>>

FilterToNegatedSlots ==
    /\ pc = "start"
    /\ Called("filterToNegatedSlots", Returns(Slots(filterToNegatedSlots(ctxFilter))))
    /\ UNCHANGED <<ctxFilter, refinedFilter, ctxTable, newProjection, strategy, question,
                   heap, stmt, calls, ctxInfo, fragment>>

NextFilter == NeutralizeIDFilter \/ NeutralizeIDFilterAgain \/ FilterToSlots \/ FilterToNegatedSlots

SpecFilter == InitFilter /\ [][NextFilter]_vars

(***************************************************************************)
(* Vocabulary of the properties.                                           *)
(***************************************************************************)
\* field n is named by an Atom or DontCare of filter f, at any depth
RECURSIVE Mentions(_, _)

Mentions(f, n) ==
    \/ f.kind \in {"Atom", "DontCare"} /\ f.name = n
    \/ f.kind = "Not" /\ Mentions(f.expr, n)
    \/ f.kind \in {"And", "Or"} /\ \E i \in 1..Len(f.operands) : Mentions(f.operands[i], n)

NamedFields(f) == {n \in Fields : Mentions(f, n)}

RECURSIVE HasExternal(_)

HasExternal(f) ==
    \/ f.kind = "External"
    \/ f.kind = "Not" /\ HasExternal(f.expr)
    \/ f.kind \in {"And", "Or"} /\ \E i \in 1..Len(f.operands) : HasExternal(f.operands[i])

\* the top-level clauses of the simplified filter
TopLevel(f) == LET o == optimize(f) IN IF o.kind = "And" THEN o.operands ELSE <<o>>

TopLevelSet(f) == {TopLevel(f)[i] : i \in 1..Len(TopLevel(f))}

IsSlotClause(c) == c.kind \in {"Atom", "DontCare"}

SlotIndexes(f, n) == {i \in 1..Len(TopLevel(f)) : IsSlotClause(TopLevel(f)[i]) /\ TopLevel(f)[i].name = n}

HasSlot(f, n) == SlotIndexes(f, n) # {}

\* the clause the slot map holds for field n (the last one on that field)
SlotClause(f, n) == TopLevel(f)[CHOOSE i \in SlotIndexes(f, n) : \A j \in SlotIndexes(f, n) : j <= i]

HasNegatedSlot(f, n) ==
    \E c \in TopLevelSet(f) : c.kind = "Not" /\ IsSlotClause(c.expr) /\ c.expr.name = n

CommonSlots(old, new) == {n \in Fields : HasSlot(old, n) /\ HasSlot(new, n)}

Neutralized(clauses) == [i \in 1..Len(clauses) |-> neutralizeIDFilter(clauses[i])]

(***************************************************************************)
(* C1: refineFilterToAnswerQuestion(old, new) is null whenever a field     *)
(* named by an Atom or DontCare of old is also named by one of new, and    *)
(* otherwise is the simplified conjunction of neutralizeIDFilter(old) and  *)
(* new.                                                                    *)
(***************************************************************************)
C1_AnswerQuestionContract ==
    pc = "refineFilterToAnswerQuestion" =>
        IF NamedFields(ctxFilter) \cap NamedFields(refinedFilter) # {}
        THEN ret = Null
        ELSE ret = optimize(And(<<neutralizeIDFilter(ctxFilter), refinedFilter>>))

\* a rejection on a field that old names only below the top level
C1_Witness ==
    /\ pc = "refineFilterToAnswerQuestion"
    /\ ret = Null
    /\ \E n \in Fields : Mentions(ctxFilter, n) /\ ~HasSlot(ctxFilter, n) /\ Mentions(refinedFilter, n)

(***************************************************************************)
(* C2: for old and new with disjoint field sets refineFilterToAnswer-      *)
(* Question succeeds, and every result row compatible with old and with    *)
(* new is compatible with the result.                                      *)
(***************************************************************************)
C2_AnswerQuestionMonotone ==
    (pc = "refineFilterToAnswerQuestion"
        /\ NamedFields(ctxFilter) \cap NamedFields(refinedFilter) = {}) =>
        /\ ret # Null
        /\ \A row \in Rows :
              (isFilterCompatibleWithResult(row, ctxFilter)
                  /\ isFilterCompatibleWithResult(row, refinedFilter))
              => isFilterCompatibleWithResult(row, ret)

(***************************************************************************)
(* C3: refineFilterToChangeFilter(old, new) is null whenever new names a   *)
(* field that old does not name, wherever in new the field occurs.         *)
(***************************************************************************)
C3_ChangeFilterNoNewField ==
    (pc = "refineFilterToChangeFilter"
        /\ \E n \in NamedFields(refinedFilter) : n \notin NamedFields(ctxFilter)) =>
        ret = Null

(***************************************************************************)
(* C4: refineFilterToChangeFilter(old, new) succeeds only if at least one  *)
(* parameter is different than before: no field common to old and new      *)
(* carries an equal clause, some field of old is given a different clause, *)
(* and the result is not the simplified old predicate.                     *)
(***************************************************************************)
C4_ChangeFilterChangesSomething ==
    (pc = "refineFilterToChangeFilter" /\ ret # Null) =>
        /\ \A n \in CommonSlots(ctxFilter, refinedFilter) :
              SlotClause(refinedFilter, n) # SlotClause(ctxFilter, n)
        /\ CommonSlots(ctxFilter, refinedFilter) # {}
        /\ ret # optimize(ctxFilter)

(***************************************************************************)
(* C5: a successful refineFilterToChangeFilter(old, new) is the simplified *)
(* conjunction of the top-level clauses of old that contain no External    *)
(* and name no field of new, followed by new; the result names no field    *)
(* absent from both, and no old clause on a field of new survives.         *)
(***************************************************************************)
KeptByChange(old, new) ==
    SelectSeq(TopLevel(old), LAMBDA c : ~HasExternal(c) /\ NamedFields(c) \cap NamedFields(new) = {})

C5_ChangeFilterResult ==
    (pc = "refineFilterToChangeFilter" /\ ret # Null) =>
        /\ ret = optimize(And(KeptByChange(ctxFilter, refinedFilter) \o <<refinedFilter>>))
        /\ NamedFields(ret) \subseteq NamedFields(ctxFilter) \cup NamedFields(refinedFilter)
        /\ \A c \in TopLevelSet(ctxFilter) :
              (NamedFields(c) \cap NamedFields(refinedFilter) # {} /\ c \notin TopLevelSet(refinedFilter))
              => c \notin TopLevelSet(ret)

\* a change that drops an External clause and the old clause of the changed
\* field, and keeps a clause on another field
C5_Witness ==
    /\ pc = "refineFilterToChangeFilter"
    /\ ret # Null
    /\ \E c \in TopLevelSet(ctxFilter) : HasExternal(c)
    /\ CommonSlots(ctxFilter, refinedFilter) # {}
    /\ Len(KeptByChange(ctxFilter, refinedFilter)) > 0

(***************************************************************************)
(* C6: refineFilterToAnswerQuestionOrChangeFilter(old, new) succeeds only  *)
(* if at most one field with a top-level Atom/DontCare clause in old has   *)
(* one in new too, and that clause differs from the old one.               *)
(***************************************************************************)
C6_AtMostOneChangedField ==
    (pc = "refineFilterToAnswerQuestionOrChangeFilter" /\ ret # Null) =>
        /\ Cardinality(CommonSlots(ctxFilter, refinedFilter)) <= 1
        /\ \A n \in CommonSlots(ctxFilter, refinedFilter) :
              SlotClause(refinedFilter, n) # SlotClause(ctxFilter, n)

\* one field changes its value, a clause on another field is kept
C6_Witness ==
    /\ pc = "refineFilterToAnswerQuestionOrChangeFilter"
    /\ ret # Null
    /\ Cardinality(CommonSlots(ctxFilter, refinedFilter)) = 1
    /\ \E n \in Fields \ CommonSlots(ctxFilter, refinedFilter) :
          HasSlot(ctxFilter, n) /\ n # "id" /\ HasSlot(ret, n)

(***************************************************************************)
(* C7: refineFilterToAnswerQuestionOrChangeFilter(old, new) is null        *)
(* whenever a field whose top-level clause in old is a DontCare has a      *)
(* top-level Atom or DontCare clause in new.                               *)
(***************************************************************************)
OverriddenDontCares(old, new) ==
    {n \in CommonSlots(old, new) : SlotClause(old, n).kind = "DontCare"}

C7_DontCareNotOverridden ==
    (pc = "refineFilterToAnswerQuestionOrChangeFilter"
        /\ OverriddenDontCares(ctxFilter, refinedFilter) # {}) =>
        ret = Null

\* the don't-care is the only reason to reject: one common field, a concrete
\* new value, nothing negated
C7_Witness ==
    /\ pc = "refineFilterToAnswerQuestionOrChangeFilter"
    /\ ret = Null
    /\ OverriddenDontCares(ctxFilter, refinedFilter) # {}
    /\ Cardinality(CommonSlots(ctxFilter, refinedFilter)) = 1
    /\ \A n \in CommonSlots(ctxFilter, refinedFilter) : SlotClause(refinedFilter, n).kind = "Atom"
    /\ \A n \in Fields : ~HasNegatedSlot(refinedFilter, n)

(***************************************************************************)
(* C8: refineFilterToAnswerQuestionOrChangeFilter(old, new) is null        *)
(* whenever a field with a top-level Atom/DontCare clause in old appears   *)
(* in new as a top-level negated clause Not(Atom|DontCare).                *)
(***************************************************************************)
NegatedOldSlots(old, new) == {n \in Fields : HasSlot(old, n) /\ HasNegatedSlot(new, n)}

C8_NegatedFieldRejected ==
    (pc = "refineFilterToAnswerQuestionOrChangeFilter"
        /\ NegatedOldSlots(ctxFilter, refinedFilter) # {}) =>
        ret = Null

\* the negation is the only reason to reject: no field is restated
C8_Witness ==
    /\ pc = "refineFilterToAnswerQuestionOrChangeFilter"
    /\ ret = Null
    /\ NegatedOldSlots(ctxFilter, refinedFilter) # {}
    /\ CommonSlots(ctxFilter, refinedFilter) = {}

(***************************************************************************)
(* C9: a successful refineFilterToAnswerQuestionOrChangeFilter(old, new)   *)
(* is the simplified conjunction of the identity-neutralized top-level     *)
(* clauses of old that name no field named in new, followed by new: no     *)
(* top-level clause of old, of any shape, on a field of new is kept.       *)
(***************************************************************************)
KeptUnmentioned(old, new) ==
    SelectSeq(TopLevel(old), LAMBDA c : NamedFields(c) \cap NamedFields(new) = {})

C9_KeepsOnlyUnmentioned ==
    (pc = "refineFilterToAnswerQuestionOrChangeFilter" /\ ret # Null) =>
        ret = optimize(And(Neutralized(KeptUnmentioned(ctxFilter, refinedFilter)) \o <<refinedFilter>>))

(***************************************************************************)
(* C9 as amended: the clauses of old that are dropped are exactly its      *)
(* top-level Atom/DontCare clauses whose field has a top-level             *)
(* Atom/DontCare clause in new; every other top-level clause of old        *)
(* (Not, Or, Compute, External) is kept, identity-neutralized, even when   *)
(* it names a field of new.                                                *)
(***************************************************************************)
KeptNotRestated(old, new) ==
    SelectSeq(TopLevel(old), LAMBDA c : ~(IsSlotClause(c) /\ HasSlot(new, c.name)))

C9_KeepsAllButRestatedSlots ==
    (pc = "refineFilterToAnswerQuestionOrChangeFilter" /\ ret # Null) =>
        ret = optimize(And(Neutralized(KeptNotRestated(ctxFilter, refinedFilter)) \o <<refinedFilter>>))

\* a negated clause of old on a field that new constrains survives
C9_Witness ==
    /\ pc = "refineFilterToAnswerQuestionOrChangeFilter"
    /\ ret # Null
    /\ \E c \in TopLevelSet(ctxFilter) :
          /\ c.kind = "Not"
          /\ \E n \in NamedFields(c) : HasSlot(refinedFilter, n)
          /\ c \in TopLevelSet(ret)

(***************************************************************************)
(* C10: queryRefinement, and every transition rule built on it, returns    *)
(* null and raises no error when the query has no legal filter attachment, *)
(* i.e. when the attachment search reaches an Aggregation, VarRef or       *)
(* ResultRef node.                                                         *)
(***************************************************************************)
RECURSIVE NoLegalAttachment(_)

NoLegalAttachment(t) ==
    \/ t.kind \in NonFilterableKinds
    \/ t.kind \in PassThroughKinds /\ NoLegalAttachment(t.table)
    \/ t.kind = "Join" /\ NoLegalAttachment(t.rhs)

C10_NoAttachmentRejects ==
    (pc \in {"queryRefinement", "emptySearchChangePair"} /\ NoLegalAttachment(ctxTable)) =>
        (raised = "none" /\ ret = Null)

(***************************************************************************)
(* C11: the trees of the context are never mutated.  After any sequence of *)
(* calls of queryRefinement, makeRefinementProposal, addDontCare and       *)
(* emptySearchChangePair on one context, accepted or rejected, the         *)
(* statement of the context and the query under it are structurally what   *)
(* they were before the first call, also when a Filter had to be made up   *)
(* and spliced under a pass-through or Join parent.                        *)
(***************************************************************************)
C11_ContextNeverMutated ==
    stmt # 0 => load(heap, stmt) = Statement(ctxTable)

\* is there a Filter in the tree t
RECURSIVE HasFilter(_)

HasFilter(t) ==
    \/ t.kind = "Filter"
    \/ t.kind = "Join" /\ (HasFilter(t.lhs) \/ HasFilter(t.rhs))
    \/ t.kind # "Join" /\ "table" \in DOMAIN t /\ HasFilter(t.table)

\* the second call on a context whose query has no Filter under a Join or a
\* pass-through parent returned a query with the Filter spliced in
C11_Witness ==
    /\ stmt # 0
    /\ calls = MaxCalls
    /\ pc \in {"queryRefinement", "emptySearchChangePair", "addDontCare"}
    /\ ctxTable.kind \in PassThroughKinds \cup {"Join"}
    /\ ~HasFilter(ctxTable)
    /\ ret # Null
    /\ HasFilter(ret)

(***************************************************************************)
(* C12: queryRefinement without an explicit projection, on a query whose   *)
(* root is a Projection, returns a query whose projection is exactly the   *)
(* fields of the old projection that the refined predicate does not use,   *)
(* in their original order; when no field remains the result has no        *)
(* Projection wrapper at all.                                              *)
(***************************************************************************)
\* the predicate at the filter attachment point of the query t
RECURSIVE AttachedFilter(_)

AttachedFilter(t) ==
    CASE t.kind = "Filter" -> t.filter
      [] t.kind = "Join" -> AttachedFilter(t.rhs)
      [] t.kind \in PassThroughKinds -> AttachedFilter(t.table)
      [] OTHER -> TrueExpr

\* the fields of args that predicate f does not name, in the order of args
RECURSIVE Unused(_, _)

Unused(args, f) ==
    IF args = <<>> THEN <<>>
    ELSE IF Mentions(f, Head(args)) THEN Unused(Tail(args), f)
    ELSE <<Head(args)>> \o Unused(Tail(args), f)

C12_ProjectionShrinks ==
    (/\ pc = "queryRefinement"
     /\ newProjection = Null
     /\ ctxTable.kind = "Projection"
     /\ raised = "none"
     /\ ret # Null) =>
        IF Unused(ctxTable.args, AttachedFilter(ret)) = <<>>
        THEN ret.kind # "Projection"
        ELSE ret.kind = "Projection" /\ ret.args = Unused(ctxTable.args, AttachedFilter(ret))

\* a projection of two fields lost its first field and kept the second
C12_Witness ==
    /\ pc = "queryRefinement"
    /\ newProjection = Null
    /\ ctxTable.kind = "Projection"
    /\ Len(ctxTable.args) = 2
    /\ raised = "none"
    /\ ret # Null
    /\ ret.kind = "Projection"
    /\ ret.args = <<ctxTable.args[2]>>

(***************************************************************************)
(* C13: queryRefinement with explicit projection fields returns a query    *)
(* whose root is a Projection carrying exactly those fields, around the    *)
(* refined query with any previous root Projection removed; and after any  *)
(* sequence of refinements that starts from a query without a Projection   *)
(* directly around a Projection, no query has one.                         *)
(***************************************************************************)
\* the query t with predicate f at its filter attachment point
RECURSIVE WithFilter(_, _)

WithFilter(t, f) ==
    CASE t.kind = "Filter" -> [t EXCEPT !.filter = f]
      [] t.kind = "Join" -> [t EXCEPT !.rhs = WithFilter(t.rhs, f)]
      [] t.kind \in PassThroughKinds -> [t EXCEPT !.table = WithFilter(t.table, f)]
      [] OTHER -> FilterTable(t, f)

WithoutRootProjection(t) == IF t.kind = "Projection" THEN t.table ELSE t

\* is there a Projection directly around a Projection in the query t
RECURSIVE ProjectionOfProjection(_)

ProjectionOfProjection(t) ==
    \/ t.kind = "Projection" /\ t.table.kind = "Projection"
    \/ t.kind = "Join" /\ (ProjectionOfProjection(t.lhs) \/ ProjectionOfProjection(t.rhs))
    \/ t.kind # "Join" /\ "table" \in DOMAIN t /\ ProjectionOfProjection(t.table)

\* was the call given explicit projection fields
HasExplicitProjection ==
    \/ pc = "queryRefinement" /\ fragment.projection # Null
    \/ pc \in {"listProposalSearchQuestionPair", "recommendationSearchQuestionPair"}

\* the explicit projection fields the call was given
ExplicitProjection ==
    IF pc = "queryRefinement" THEN fragment.projection.args ELSE questionNames(fragment.questions)

C13_ExplicitProjection ==
    /\ ~ProjectionOfProjection(ctxTable)
    /\ returnedQuery(ret) # Null => ~ProjectionOfProjection(returnedQuery(ret))
    /\ (HasExplicitProjection /\ returnedQuery(ret) # Null) =>
          /\ returnedQuery(ret).kind = "Projection"
          /\ returnedQuery(ret).args = ExplicitProjection
          /\ returnedQuery(ret).table =
                WithFilter(WithoutRootProjection(ctxTable), AttachedFilter(returnedQuery(ret)))

\* after a first refinement left a Projection at the root, a second one with
\* other explicit fields returned a query
C13_Witness ==
    /\ pc = "queryRefinement"
    /\ calls > 0
    /\ ctxTable.kind = "Projection"
    /\ fragment.projection # Null
    /\ fragment.projection.args # ctxTable.args
    /\ ret # Null

(***************************************************************************)
(* C14: starting from a context predicate in which no field has two        *)
(* top-level Atom/DontCare clauses, and with fragments of the same kind,   *)
(* after any sequence of accepted transition rules the predicate of the    *)
(* user query never has two top-level Atom/DontCare clauses on one field;  *)
(* a rule that adds id == name rejects or replaces when the context        *)
(* already constrains id.                                                  *)
(***************************************************************************)
DuplicateSlot(f) ==
    \E i, j \in 1..Len(flattenAnd(f)) :
        /\ i < j
        /\ flattenAnd(f)[i].kind \in {"Atom", "DontCare"}
        /\ flattenAnd(f)[j].kind \in {"Atom", "DontCare"}
        /\ flattenAnd(f)[i].name = flattenAnd(f)[j].name

C14_NoDuplicateSlot ==
    /\ ~DuplicateSlot(AttachedFilter(ctxTable))
    /\ returnedQuery(ret) # Null => ~DuplicateSlot(AttachedFilter(returnedQuery(ret)))

(***************************************************************************)
(* Vocabulary of the grounding properties.                                 *)
(***************************************************************************)
\* the rows checkInfoPhrase may ground a slot bag in: the first three
TopRows == 1..(IF Len(ctxInfo.results) < 3 THEN Len(ctxInfo.results) ELSE 3)

\* row i carries field n
Carries(i, n) == n \in DOMAIN ctxInfo.results[i].value

\* row i carries field n of the bag with a matching value
MatchesField(i, n) ==
    /\ Carries(i, n)
    /\ IF ctxInfo.results[i].value[n].isArray /\ fragment.bag[n].isArray
       THEN fragment.bag[n].elements \subseteq ctxInfo.results[i].value[n].elements
       ELSE ctxInfo.results[i].value[n] = fragment.bag[n]

\* the function identity and the projection / top row checks pass
FieldChecksPass ==
    /\ fragment.function = ctxInfo.currentFunction
    /\ IF ctxInfo.projection # Null
       THEN \A i \in 1..Len(ctxInfo.projection.args) : ctxInfo.projection.args[i] \in DOMAIN fragment.bag
       ELSE \A n \in DOMAIN fragment.bag : Carries(1, n)

(***************************************************************************)
(* C15 (as stated): checkInfoPhrase rejects every slot bag containing a    *)
(* field that is not in the active projection when there is one, and       *)
(* every slot bag containing a field absent from the top result row when   *)
(* there is none.                                                          *)
(***************************************************************************)
C15_BagWithinProjection ==
    pc = "checkInfoPhrase" =>
        /\ (/\ ctxInfo.projection # Null
            /\ \E n \in DOMAIN fragment.bag :
                  \A i \in 1..Len(ctxInfo.projection.args) : ctxInfo.projection.args[i] # n)
              => ret = Null
        /\ (ctxInfo.projection = Null /\ \E n \in DOMAIN fragment.bag : ~Carries(1, n))
              => ret = Null

(***************************************************************************)
(* C15 (amended): checkInfoPhrase rejects every slot bag that lacks a      *)
(* field of the active projection when there is one, and every slot bag    *)
(* containing a field absent from the top result row when there is none.   *)
(***************************************************************************)
C15_ProjectionWithinBag ==
    pc = "checkInfoPhrase" =>
        /\ (/\ ctxInfo.projection # Null
            /\ \E i \in 1..Len(ctxInfo.projection.args) :
                  ctxInfo.projection.args[i] \notin DOMAIN fragment.bag)
              => (ret = Null /\ raised = "none")
        /\ (ctxInfo.projection = Null /\ \E n \in DOMAIN fragment.bag : ~Carries(1, n))
              => (ret = Null /\ raised = "none")

\* a bag of the active function that a top row grounds is rejected because
\* it lacks a projected field
C15_Witness ==
    /\ pc = "checkInfoPhrase"
    /\ fragment.function = ctxInfo.currentFunction
    /\ ctxInfo.projection # Null
    /\ DOMAIN fragment.bag # {}
    /\ \E i \in 1..Len(ctxInfo.projection.args) : ctxInfo.projection.args[i] \notin DOMAIN fragment.bag
    /\ \E i \in TopRows : \A n \in DOMAIN fragment.bag : MatchesField(i, n)
    /\ ret = Null

(***************************************************************************)
(* C16: checkInfoPhrase returns null whenever the slot bag contains a      *)
(* field that none of the first three result rows carries (fewer rows if   *)
(* fewer exist); rows beyond the third never make a slot bag acceptable.   *)
(***************************************************************************)
C16_GroundedInTopThree ==
    pc = "checkInfoPhrase" =>
        /\ (\E n \in DOMAIN fragment.bag : \A i \in TopRows : ~Carries(i, n))
              => (ret = Null /\ raised = "none")
        /\ ret # Null =>
              checkInfoPhrase(ctxInfo.currentFunction, ctxInfo.projection,
                              SubSeq(ctxInfo.results, 1, Cardinality(TopRows)), fragment).value # Null

\* only the fourth row carries a field of the bag, and the bag is rejected
C16_Witness ==
    /\ pc = "checkInfoPhrase"
    /\ FieldChecksPass
    /\ Len(ctxInfo.results) = 4
    /\ \E n \in DOMAIN fragment.bag :
          /\ \A i \in TopRows : ~Carries(i, n)
          /\ \A m \in DOMAIN fragment.bag : MatchesField(4, m)
    /\ ret = Null

(***************************************************************************)
(* C17 (as stated): given that the function identity and the projection /  *)
(* top row field checks pass, checkInfoPhrase accepts a slot bag exactly   *)
(* when, for each field of the bag, at least one of the first three rows   *)
(* has the field and matches the value of the bag; the matching row may    *)
(* differ from field to field.                                             *)
(***************************************************************************)
C17_SomeRowPerField ==
    (pc = "checkInfoPhrase" /\ FieldChecksPass) =>
        (ret # Null <=> \A n \in DOMAIN fragment.bag : \E i \in TopRows : MatchesField(i, n))

(***************************************************************************)
(* C17 (amended): given that the function identity and the projection /    *)
(* top row field checks pass, checkInfoPhrase accepts a slot bag exactly   *)
(* when at least one of the first three rows has every field of the bag    *)
(* and matches the value of the bag on each (array-subset for array        *)
(* values, equality otherwise): one row matches all the fields.            *)
(***************************************************************************)
C17_OneRowForAllFields ==
    (pc = "checkInfoPhrase" /\ FieldChecksPass) =>
        /\ raised = "none"
        /\ ret # Null <=> \E i \in TopRows : \A n \in DOMAIN fragment.bag : MatchesField(i, n)
        /\ ret # Null => ret = fragment

\* a bag of two fields, one of them an array, accepted on the third row only
C17_Witness ==
    /\ pc = "checkInfoPhrase"
    /\ FieldChecksPass
    /\ Cardinality(DOMAIN fragment.bag) = 2
    /\ \E n \in DOMAIN fragment.bag : fragment.bag[n].isArray
    /\ Len(ctxInfo.results) > 2
    /\ \A n \in DOMAIN fragment.bag : MatchesField(3, n)
    /\ \A i \in {1, 2} : \E n \in DOMAIN fragment.bag : ~MatchesField(i, n)
    /\ ret = fragment

(***************************************************************************)
(* Vocabulary of the properties of the transition rules.                   *)
(***************************************************************************)
RecommendationRules ==
    {"negativeRecommendationReplyPair", "positiveRecommendationReplyPair",
     "recommendationSearchQuestionPair", "recommendationCancelPair"}

IsStatePair(value) == value.kind = "StatePair"

\* the names of the first argument of the action, in declaration order,
\* whose type is the type of the id of the row: one name, or none
ChainArguments(row, action) ==
    {action.args[i].name : i \in {k \in 1..Len(action.args) :
        /\ action.args[k].type = row.idType
        /\ \A j \in 1..(k - 1) : action.args[j].type # row.idType}}

\* the dialogue state carries the action with its chain argument bound to
\* the id of the row
BindsChainArgument(state, row, action) ==
    /\ state.param.kind = "ActionItem"
    /\ state.param.action = action
    /\ {state.param.pname} = ChainArguments(row, action)
    /\ state.param.value = row.value["id"]

(***************************************************************************)
(* C18: findChainParam returns the first argument of the action, in        *)
(* declaration order, whose type is the type of the id of topResult, and   *)
(* fails an assertion when no argument has the type; every rule that       *)
(* proposes or accepts an action for a recommended result binds exactly    *)
(* that argument to the id of topResult, and returns no pair of states     *)
(* when there is no such argument.                                         *)
(***************************************************************************)
C18_ChainArgumentBound ==
    (pc \in RecommendationRules /\ fragment.topResult # Null) =>
        /\ fragment.action # Null =>
              /\ ChainArguments(fragment.topResult, fragment.action) = {} => ~IsStatePair(ret)
              /\ IsStatePair(ret) => BindsChainArgument(ret.sysState, fragment.topResult, fragment.action)
        /\ (pc = "positiveRecommendationReplyPair" /\ fragment.acceptedAction # Null) =>
              /\ ChainArguments(fragment.topResult, fragment.acceptedAction) = {} => ~IsStatePair(ret)
              /\ IsStatePair(ret) =>
                    BindsChainArgument(ret.userState, fragment.topResult, fragment.acceptedAction)
        /\ (/\ pc = "positiveRecommendationReplyPair"
            /\ \E a \in {fragment.action, fragment.acceptedAction} :
                  a # Null /\ ChainArguments(fragment.topResult, a) = {})
              => (raised = "AssertionError" /\ ret = Null)

\* an action with two arguments of the type of the id, after one of another
\* type, is proposed and accepted
C18_Witness ==
    /\ pc = "positiveRecommendationReplyPair"
    /\ fragment.action # Null
    /\ fragment.acceptedAction = fragment.action
    /\ Cardinality({i \in 1..Len(fragment.action.args) :
                       fragment.action.args[i].type = fragment.topResult.idType}) = 2
    /\ fragment.action.args[1].type # fragment.topResult.idType
    /\ IsStatePair(ret)
    /\ ret.sysState.param.pname = "restaurant"
    /\ ret.userState.param.pname = "restaurant"
    /\ ret.userState.param.value = fragment.topResult.value["id"]

\* the rules that receive a query or filter fragment
FragmentRules ==
    {"preciseSearchQuestionAnswer", "impreciseSearchQuestionAnswer", "proposalReplyPair",
     "negativeRecommendationReplyPair", "negativeListProposalReplyPair", "emptySearchChangePair"}

(***************************************************************************)
(* C19: every transition rule that receives a query or filter fragment     *)
(* rejects the fragment when the function it is about differs from the     *)
(* active function of the context: no pair of states is returned.          *)
(***************************************************************************)
C19_OtherFunctionRejected ==
    (/\ pc \in FragmentRules
     /\ "function" \in DOMAIN fragment
     /\ fragment.function # ctxInfo.currentFunction)
        => ~IsStatePair(ret)

\* the rules that build a pair of a system state and a user state
PairRules ==
    FragmentRules \cup RecommendationRules \cup
    {"listProposalSearchQuestionPair", "positiveListProposalReplyPair"}

(***************************************************************************)
(* C20: every transition rule returns either null or exactly the value     *)
(* checkStateIsValid returned for the pair of states it built: when a      *)
(* precondition fails the returned value is null and no other value, and   *)
(* when the validator returns null the rule returns null.                  *)
(***************************************************************************)
C20_NullOrValidatedPair ==
    pc \in PairRules =>
        \/ ret = Null
        \/ /\ IsStatePair(ret)
           /\ fragment.valid
           /\ ret = checkStateIsValid(ret, fragment.valid)

\* the fragment is one clause that gives field n, which the context
\* constrains by a top-level clause, another value
ChangesConstrainedField(n) ==
    /\ fragment.filter.kind = "Atom"
    /\ fragment.filter.name = n
    /\ HasSlot(AttachedFilter(ctxTable), n)
    /\ SlotClause(AttachedFilter(ctxTable), n) # fragment.filter
    /\ \A c \in TopLevelSet(AttachedFilter(ctxTable)) :
          (IsSlotClause(c) /\ c.name = n) => c # fragment.filter

\* the question field, if any, is an output field the context filter uses
QuestionIsAboutContext ==
    fragment.question # NullName =>
        (fragment.question \in schemaOut /\ Mentions(AttachedFilter(ctxTable), fragment.question))

(***************************************************************************)
(* C21: emptySearchChangePair applies the changeFilter strategy.  It       *)
(* rejects a fragment that introduces a field the context never            *)
(* constrained, and a question field that is not an output field or is not *)
(* used by the filter of the context.  It accepts a fragment that changes   *)
(* the value of a constrained field: the user state executes, with status   *)
(* accepted, a query whose predicate keeps the new clause and no other      *)
(* clause on that field; the system act is sys_empty_search without         *)
(* question field and sys_empty_search_question with one.                   *)
(***************************************************************************)
C21_EmptySearchChange ==
    pc = "emptySearchChangePair" =>
        /\ (\E n \in NamedFields(fragment.filter) : n \notin NamedFields(AttachedFilter(ctxTable)))
              => ~IsStatePair(ret)
        /\ ~QuestionIsAboutContext => ~IsStatePair(ret)
        /\ IsStatePair(ret) =>
              /\ ret.sysState.act = (IF fragment.question = NullName THEN "sys_empty_search"
                                     ELSE "sys_empty_search_question")
              /\ ret.sysState.param = fragment.question
              /\ ret.userState.act = "execute"
              /\ ret.userState.param.confirm = "accepted"
        /\ \A n \in Fields :
              (ChangesConstrainedField(n) /\ QuestionIsAboutContext /\ fragment.valid) =>
                  /\ IsStatePair(ret)
                  /\ fragment.filter \in TopLevelSet(AttachedFilter(ret.userState.param.table))
                  /\ \A c \in TopLevelSet(AttachedFilter(ret.userState.param.table)) :
                        Mentions(c, n) => c = fragment.filter

\* the fields a search question may ask for: they exist, are not input
\* arguments and are not marked as not filterable
QuestionFields ==
    {n \in DOMAIN schemaArguments : ~schemaArguments[n].is_input /\ schemaArguments[n].filterable}

\* the answer is about the active function and on fields the context does
\* not constrain yet
AnswerOnFreshField ==
    /\ fragment.function = ctxInfo.currentFunction
    /\ NamedFields(fragment.filter) # {}
    /\ \A n \in NamedFields(fragment.filter) : ~Mentions(AttachedFilter(ctxTable), n)

\* the predicate of the answerQuestion strategy: the context predicate
\* without its identity atoms, and the answer
AnsweredFilter ==
    optimize(And(<<neutralizeIDFilter(AttachedFilter(ctxTable)), fragment.filter>>))

(***************************************************************************)
(* C22: preciseSearchQuestionAnswer rejects when a question field does not *)
(* exist, is an input argument or is marked non-filterable.  For valid     *)
(* questions and an answer on a field not yet constrained in the context,  *)
(* it returns what the validator returns for the pair of the user state    *)
(* that executes, with status accepted, the context query refined with the *)
(* answerQuestion strategy (old predicate AND answer), and the system act  *)
(* sys_search_question carrying the questions, or                          *)
(* sys_generic_search_question when the question list is empty.            *)
(***************************************************************************)
C22_PreciseAnswer ==
    pc = "preciseSearchQuestionAnswer" =>
        /\ (\E i \in 1..Len(fragment.questions) : fragment.questions[i] \notin QuestionFields)
              => (ret = Null /\ raised = "none")
        /\ (/\ AnswerOnFreshField
            /\ \A i \in 1..Len(fragment.questions) : fragment.questions[i] \in QuestionFields) =>
              IF ~fragment.valid THEN ret = Null /\ raised = "none"
              ELSE /\ IsStatePair(ret)
                   /\ IF Len(fragment.questions) = 0
                      THEN ret.sysState = [act |-> "sys_generic_search_question", param |-> Null]
                      ELSE /\ ret.sysState.act = "sys_search_question"
                           /\ ret.sysState.param = fragment.questions
                   /\ ret.userState.act = "execute"
                   /\ ret.userState.param.kind = "QueryItem"
                   /\ ret.userState.param.confirm = "accepted"
                   /\ AttachedFilter(ret.userState.param.table) = AnsweredFilter
                   /\ ctxTable.kind # "Projection" =>
                         ret.userState.param.table = WithFilter(ctxTable, AnsweredFilter)
                   /\ ~Mentions(AttachedFilter(ctxTable), "id") =>
                         AnsweredFilter = optimize(And(<<AttachedFilter(ctxTable), fragment.filter>>))

\* a question about the price is answered in a context that constrains the
\* food: the refined predicate is food == 1 AND price == 1
C22_Witness ==
    /\ pc = "preciseSearchQuestionAnswer"
    /\ fragment.questions = <<"price">>
    /\ AttachedFilter(ctxTable) = Atom("food", "==", 1)
    /\ fragment.filter = Atom("price", "==", 1)
    /\ IsStatePair(ret)
    /\ ret.sysState.act = "sys_search_question"
    /\ AttachedFilter(ret.userState.param.table) = And(<<Atom("food", "==", 1), Atom("price", "==", 1)>>)
    /\ ret.userState.param.confirm = "accepted"

(***************************************************************************)
(* Vocabulary of the compatibility properties.                             *)
(***************************************************************************)
\* the reference evaluation of filter f on the row
RECURSIVE Holds(_, _)

Holds(row, f) ==
    IF f.kind = "And" THEN \A i \in 1..Len(f.operands) : Holds(row, f.operands[i])
    ELSE IF f.kind = "Or" THEN \E i \in 1..Len(f.operands) : Holds(row, f.operands[i])
    ELSE IF f.kind = "Not" THEN ~Holds(row, f.expr)
    ELSE IF f.kind = "Atom"
         THEN /\ f.name \in DOMAIN row
              /\ f.operator \in {"==", "=~"} => row[f.name] = f.value
    ELSE f.kind # "False"

(***************************************************************************)
(* C23: isFilterCompatibleWithResult(row, filter) equals the reference     *)
(* evaluation: And is true iff all operands are, Or iff any operand is,    *)
(* Not is the negation, True, DontCare, External and Compute are true,     *)
(* False is false; an Atom is false when the row lacks its field, for the  *)
(* operators == and =~ it is true iff the value of the row equals the      *)
(* value of the atom, and for every other operator it is true.             *)
(***************************************************************************)
C23_ReferenceEvaluation ==
    pc = "isFilterCompatibleWithResult" =>
        (raised = "none" /\ ret = Boolean(Holds(ctxInfo, ctxFilter)))

\* a disjunction of a negated =~ atom that is false on the row and an atom
\* of another operator on a field the row lacks
C23_Witness ==
    /\ pc = "isFilterCompatibleWithResult"
    /\ ctxFilter.kind = "Or"
    /\ ctxFilter.operands[1] = Not(Atom("food", "=~", 1))
    /\ "food" \in DOMAIN ctxInfo
    /\ ctxInfo["food"] = 1
    /\ ctxFilter.operands[2].operator = "<="
    /\ ctxFilter.operands[2].name \notin DOMAIN ctxInfo
    /\ ret = Boolean(FALSE)

(***************************************************************************)
(* C24: an unseen value is never verbalized through a negation: for a      *)
(* filter Not(Atom(f, op, v)) where the result row                         *)
(* (isFilterCompatibleWithResult) or the slot bag                          *)
(* (isFilterCompatibleWithInfo) has no value for the field f, the          *)
(* compatibility check returns false.                                      *)
(***************************************************************************)
C24_UnseenNotVerbalized ==
    (/\ pc \in {"isFilterCompatibleWithResult", "isFilterCompatibleWithInfo"}
     /\ ctxFilter.kind = "Not"
     /\ ctxFilter.expr.kind = "Atom"
     /\ ctxFilter.expr.name \notin
           (IF pc = "isFilterCompatibleWithResult" THEN DOMAIN ctxInfo ELSE DOMAIN fragment.bag))
        => ret = Boolean(FALSE)

(***************************************************************************)
(* Vocabulary of the properties of the attachment search.                  *)
(***************************************************************************)
\* the node where the descent from t ends: it follows the single child of
\* Sort, Index, Slice, Projection, Compute and Alias and the right child of
\* Join
RECURSIVE DescentEnd(_)

DescentEnd(t) ==
    IF t.kind \in {"Sort", "Index", "Slice", "Projection", "Compute", "Alias"} THEN DescentEnd(t.table)
    ELSE IF t.kind = "Join" THEN DescentEnd(t.rhs)
    ELSE t

\* the number of nodes above the end of the descent
RECURSIVE DescentLength(_)

DescentLength(t) ==
    IF t.kind \in {"Sort", "Index", "Slice", "Projection", "Compute", "Alias"}
    THEN 1 + DescentLength(t.table)
    ELSE IF t.kind = "Join" THEN 1 + DescentLength(t.rhs)
    ELSE 0

\* the objects on the descent from the object a
RECURSIVE PathAddresses(_, _)

PathAddresses(h, a) ==
    IF h[a].kind \in {"Sort", "Index", "Slice", "Projection", "Compute", "Alias"}
    THEN {a} \cup PathAddresses(h, h[a].table)
    ELSE IF h[a].kind = "Join" THEN {a} \cup PathAddresses(h, h[a].rhs)
    ELSE {a}

\* the objects of the tree before the call
HeapBefore == store(<<>>, ctxTable).heap

\* the objects of the tree that the call changed
Changed == {a \in 1..Len(HeapBefore) : heap[a] # HeapBefore[a]}

(***************************************************************************)
(* C25: for a tree whose descent meets no unsupported or non-filterable    *)
(* node, findOrMakeFilterTable returns [root', f] where f is a Filter on   *)
(* the descent from root'.  If the descent already contains a Filter, f is *)
(* the first one and the tree is unchanged; otherwise f is a new           *)
(* Filter(invocation, True) exactly at the former position of the          *)
(* invocation (new root, child of the parent, or right child of the parent *)
(* join) and nothing else in the tree changes.                             *)
(***************************************************************************)
C25_FilterOnDescent ==
    (pc = "findOrMakeFilterTable" /\ DescentEnd(ctxTable).kind \in {"Filter", "Invocation"}) =>
        /\ raised = "none"
        /\ ret.kind = "Pair"
        /\ ret.filterTable \in PathAddresses(heap, ret.root)
        /\ heap[ret.filterTable].kind = "Filter"
        /\ IF DescentEnd(ctxTable).kind = "Filter"
           THEN /\ heap = HeapBefore
                /\ ret.root = stmt
                /\ load(heap, ret.filterTable) = DescentEnd(ctxTable)
           ELSE /\ Len(heap) = Len(HeapBefore) + 1
                /\ ret.filterTable = Len(heap)
                /\ heap[ret.filterTable].filter = TrueExpr
                /\ HeapBefore[heap[ret.filterTable].table].kind = "Invocation"
                /\ heap[ret.filterTable].table \in PathAddresses(HeapBefore, stmt)
                /\ load(heap, ret.root) = WithFilter(ctxTable, TrueExpr)
                /\ IF ctxTable.kind = "Invocation"
                   THEN ret.root = ret.filterTable /\ Changed = {}
                   ELSE /\ ret.root = stmt
                        /\ Cardinality(Changed) = 1
                        /\ \A a \in Changed :
                              /\ a \in PathAddresses(HeapBefore, stmt)
                              /\ IF heap[a].kind = "Join"
                                 THEN heap[a] = [HeapBefore[a] EXCEPT !.rhs = ret.filterTable]
                                 ELSE heap[a] = [HeapBefore[a] EXCEPT !.table = ret.filterTable]

\* a Filter is made up on the right of a join whose left side has a Filter,
\* below a pass-through node
C25_Witness ==
    /\ pc = "findOrMakeFilterTable"
    /\ ctxTable.kind = "Sort"
    /\ ctxTable.table.kind = "Join"
    /\ ctxTable.table.lhs.kind = "Filter"
    /\ ctxTable.table.rhs.kind = "Invocation"
    /\ ret.kind = "Pair"
    /\ ret.root = stmt
    /\ heap[heap[stmt].table].rhs = ret.filterTable
    /\ load(heap, stmt) =
          Wrapper("Sort", JoinTable(ctxTable.table.lhs, FilterTable(InvocationTable, TrueExpr)))

(***************************************************************************)
(* C26: findOrMakeFilterTable returns [null, null], without modifying the  *)
(* tree, exactly when the descent reaches an Aggregation, VarRef or        *)
(* ResultRef before any Filter, and raises a fatal error, returning no     *)
(* value, exactly when the descent reaches a Sequence, History, Window or  *)
(* TimeSeries before any Filter; on every tree the search terminates,      *)
(* after one iteration per node of the descent.                            *)
(***************************************************************************)
C26_ErrorClasses ==
    pc = "findOrMakeFilterTable" =>
        /\ ret = Pair(0, 0) <=> DescentEnd(ctxTable).kind \in {"Aggregation", "VarRef", "ResultRef"}
        /\ ret = Pair(0, 0) => (raised = "none" /\ heap = HeapBefore)
        /\ raised # "none" <=>
              DescentEnd(ctxTable).kind \in {"Sequence", "History", "Window", "TimeSeries"}
        /\ raised # "none" => (raised = "NOT IMPLEMENTED" /\ ret = Null /\ heap = HeapBefore)
        /\ calls = DescentLength(ctxTable)

C26_SeparatesAndTerminates ==
    /\ []C26_ErrorClasses
    /\ (pc = "start") ~> (pc = "findOrMakeFilterTable")

\* below a join with a Filter on the left and a pass-through node, an
\* Aggregation above a Filter is refused
C26_Witness ==
    /\ pc = "findOrMakeFilterTable"
    /\ ctxTable.kind = "Join"
    /\ ctxTable.lhs.kind = "Filter"
    /\ ctxTable.rhs.kind \in {"Sort", "Index", "Slice", "Projection", "Compute", "Alias"}
    /\ ctxTable.rhs.table.kind = "Aggregation"
    /\ ctxTable.rhs.table.table.kind = "Filter"
    /\ ret = Pair(0, 0)
    /\ heap = HeapBefore
    /\ calls = 2

(***************************************************************************)
(* Vocabulary of the properties of the functions on one filter.            *)
(***************************************************************************)
IsIdEquality(f) == f.kind = "Atom" /\ f.name = "id" /\ f.operator = "=="

\* b is a with some atoms id == v, at any depth under Not, And and Or,
\* replaced by True, and nothing else replaced
RECURSIVE IdEqualitiesReplaced(_, _)

IdEqualitiesReplaced(a, b) ==
    IF IsIdEquality(a) THEN b = TrueExpr
    ELSE IF a.kind = "Not" THEN b.kind = "Not" /\ IdEqualitiesReplaced(a.expr, b.expr)
    ELSE IF a.kind \in {"And", "Or"}
         THEN /\ b.kind = a.kind
              /\ Len(b.operands) = Len(a.operands)
              /\ \A i \in 1..Len(a.operands) : IdEqualitiesReplaced(a.operands[i], b.operands[i])
    ELSE b = a

\* is there an atom id == v in f
RECURSIVE HasIdEquality(_)

HasIdEquality(f) ==
    \/ IsIdEquality(f)
    \/ f.kind = "Not" /\ HasIdEquality(f.expr)
    \/ f.kind \in {"And", "Or"} /\ \E i \in 1..Len(f.operands) : HasIdEquality(f.operands[i])

(***************************************************************************)
(* C27: neutralizeIDFilter is idempotent (applied twice it gives the same  *)
(* predicate as applied once), replaces exactly the atoms id == v by True, *)
(* at any depth under Not, And and Or, and leaves the set of the fields    *)
(* other than id that the predicate mentions unchanged.                    *)
(***************************************************************************)
C27_NeutralizeIDFilter ==
    pc = "neutralizeIDFilter" =>
        /\ raised = "none"
        /\ calls = 0 =>
              /\ IdEqualitiesReplaced(ctxFilter, ret)
              /\ ~HasIdEquality(ret)
              /\ NamedFields(ret) \ {"id"} = NamedFields(ctxFilter) \ {"id"}
        /\ calls = 1 => ret = refinedFilter

\* an atom id == v is replaced below a Not and an Or, an atom id >= v of
\* the same filter is kept, and a second application changes nothing
C27_Witness ==
    /\ pc = "neutralizeIDFilter"
    /\ calls = 1
    /\ ctxFilter = Or(<<And(<<Atom("id", "==", 1), Atom("price", "==", 1)>>), Atom("id", ">=", 1)>>)
    /\ refinedFilter = Or(<<And(<<TrueExpr, Atom("price", "==", 1)>>), Atom("id", ">=", 1)>>)
    /\ ret = refinedFilter

\* the fields of the top-level clauses of the simplified filter f that are
\* an Atom or a DontCare
SlotFields(f) == {c.name : c \in {d \in TopLevelSet(f) : d.kind \in {"Atom", "DontCare"}}}

\* the fields of its top-level clauses that are a Not of an Atom or DontCare
NegatedSlotFields(f) ==
    {c.expr.name : c \in {d \in TopLevelSet(f) : d.kind = "Not" /\ d.expr.kind \in {"Atom", "DontCare"}}}

(***************************************************************************)
(* C28: filterToSlots and filterToNegatedSlots inspect only the top-level  *)
(* operands of the simplified And (or the predicate itself if it is not an *)
(* And): the positive map contains exactly the fields of the top-level     *)
(* Atom and DontCare clauses, the negated map exactly the fields of the    *)
(* top-level Not(Atom | DontCare) clauses, each with a clause of the       *)
(* filter on that field; fields nested deeper, as A and B in               *)
(* Not(And(A, B)) or inside an Or, appear in neither map.                  *)
(***************************************************************************)
C28_TopLevelSlots ==
    /\ pc = "filterToSlots" =>
          /\ DOMAIN ret.slots = SlotFields(ctxFilter)
          /\ \A n \in DOMAIN ret.slots :
                /\ ret.slots[n] \in TopLevelSet(ctxFilter)
                /\ ret.slots[n].kind \in {"Atom", "DontCare"}
                /\ ret.slots[n].name = n
    /\ pc = "filterToNegatedSlots" =>
          /\ DOMAIN ret.slots = NegatedSlotFields(ctxFilter)
          /\ \A n \in DOMAIN ret.slots :
                /\ ret.slots[n] \in TopLevelSet(ctxFilter)
                /\ ret.slots[n].kind = "Not"
                /\ ret.slots[n].expr.name = n
    /\ (pc \in {"filterToSlots", "filterToNegatedSlots"}
           /\ optimize(ctxFilter).kind \in {"Or", "Not"}
           /\ (optimize(ctxFilter).kind = "Not" => optimize(ctxFilter).expr.kind \in {"And", "Or"}))
          => DOMAIN ret.slots = {}

\* the fields below Not(Or(...)) are in no map, the field of the Atom next
\* to it is in the positive map
C28_Witness ==
    /\ pc = "filterToSlots"
    /\ ctxFilter = And(<<Not(Or(<<Atom("food", "==", 1), Atom("price", "==", 1)>>)), Atom("id", "==", 2)>>)
    /\ DOMAIN ret.slots = {"id"}

(***************************************************************************)
(* C29: recommendationCancelPair returns null whenever the context has a   *)
(* pending next turn, so a dialogue is never closed while an action is     *)
(* pending.  Otherwise it returns what the validator returns for the pair  *)
(* of the user act cancel and the system act sys_recommend_one, which      *)
(* carries the proposed action, its chain parameter bound to the id of the *)
(* top result with status proposed, when an action was proposed, and no    *)
(* payload otherwise.                                                      *)
(***************************************************************************)
C29_CancelPair ==
    pc = "recommendationCancelPair" =>
        /\ ctxInfo.next => (ret = Null /\ raised = "none")
        /\ IsStatePair(ret) => (~ctxInfo.next /\ ret.userState.act = "cancel")
        /\ (/\ ~ctxInfo.next
            /\ fragment.action # Null => ChainArguments(fragment.topResult, fragment.action) # {}) =>
              IF ~fragment.valid THEN ret = Null /\ raised = "none"
              ELSE /\ IsStatePair(ret)
                   /\ ret.userState = [act |-> "cancel", param |-> Null]
                   /\ ret.sysState.act = "sys_recommend_one"
                   /\ IF fragment.action = Null THEN ret.sysState.param = Null
                      ELSE /\ BindsChainArgument(ret.sysState, fragment.topResult, fragment.action)
                           /\ ret.sysState.param.confirm = "proposed"

\* with a turn pending, a cancel on a recommendation that proposes an
\* action with a chain argument, which the validator would accept, is
\* rejected
C29_Witness ==
    /\ pc = "recommendationCancelPair"
    /\ ctxInfo.next
    /\ fragment.valid
    /\ fragment.action # Null
    /\ ChainArguments(fragment.topResult, fragment.action) = {"restaurant"}
    /\ ret = Null
    /\ raised = "none"

\* addDontCare has a reason to reject: the statement has no query, the field
\* does not exist, is an input argument or is marked non-filterable, the
\* query has no legal filter attachment, or its filter already uses the field
DontCareRejected ==
    \/ heap[stmt].table = 0
    \/ refinedFilter.name \notin QuestionFields
    \/ NoLegalAttachment(ctxTable)
    \/ Mentions(AttachedFilter(ctxTable), refinedFilter.name)

(***************************************************************************)
(* C30: addDontCare(stmt, dontcare) returns null, without raising an       *)
(* error, when the statement has no query, when the field does not exist,  *)
(* is an input argument or is marked non-filterable, when the query has no *)
(* legal filter attachment, or when the filter of the query already uses   *)
(* the field; otherwise it returns a copy of the statement whose filter is *)
(* the simplified conjunction of the old filter and the DontCare clause,   *)
(* every other part of the statement being equal to the input.             *)
(***************************************************************************)
C30_AddDontCare ==
    (pc = "addDontCare" /\ load(heap, stmt) = Statement(ctxTable)) =>
        /\ DontCareRejected => (ret = Null /\ raised = "none")
        /\ (~DontCareRejected /\ DescentEnd(ctxTable).kind \in {"Filter", "Invocation"}) =>
              /\ raised = "none"
              /\ ret = Statement(WithFilter(ctxTable,
                           optimize(And(<<AttachedFilter(ctxTable), refinedFilter>>))))
====
